---- MODULE Spec2Model ----
(***************************************************************************)
(* A model of filtering/filter_computers.py: the eligibility checks that   *)
(* build the candidate table (reservable, first half), the round-based     *)
(* matching engine (reservable, second half) and the report                *)
(* (print_final_decision).  Spec is a run of the script.  Functions that   *)
(* are studied on their own have a frame each (their arguments, locals and *)
(* result) and a specification of one call: SpecDisks for check_disks,     *)
(* SpecCommand for build_command of the Redfish wrapper, SpecHostname for  *)
(* get_hostname of the Redfish import, FairSpecFields for check_fields and *)
(* SpecPost for check_and_post of common/utils.py, SpecImport for the loop *)
(* over machines of the Redfish import and of its wrapper, and             *)
(* SpecReservation for parse_list of create_glpi_reservation.py.           *)
(*                                                                         *)
(* Conventions.  Strings that the code searches with `in` are sequences of *)
(* one-character strings, so the substring test is computed.  A weight is  *)
(* the exact ratio available / required, kept as [num, den]; the           *)
(* requirement values the model draws are powers of two, for which the     *)
(* float division and addition of the code are exact.  A computer's id is  *)
(* its position in the inventory list (GLPI ids are unique).  A           *)
(* requirement carries the set of keys its yaml entry has; a key that is   *)
(* not in the set is missing, whatever the field of that name holds.       *)
(***************************************************************************)
EXTENDS Integers, Sequences, FiniteSets, TLC

VARIABLES
    yaml_file,        \* the requirements file as written by the user
    requirements,     \* parse_list: the parsed yaml, requirement records in insertion order
    computers,        \* the inventory: computer records, id = position
    disks,            \* get_disks: disk items sorted by totalsize
    reservations,     \* get_reservations: reservation records
    all_flag,         \* args.all
    pc,               \* "eval", "sort", "round", "print", "done", "crashed"
    error,            \* the exception that ended the run, "" if none
    ri, ci,           \* position of the double loop of reservable
    disks_satisfied,  \* the local of that name: Unbound, TRUE or FALSE
    available,        \* requirement -> candidates [id, total_weight], insertion order
    sorted_available, \* requirement still in play -> ids sorted by weight
    final_choices,    \* requirement -> chosen id
    taken_machines,   \* ids already chosen, in order
    index,            \* the round of the matching loop
    limited, pick,    \* the locals of the last round run
    report,           \* the Recommendations lines printed: [requirement, computer_id]
    fulfilled,        \* the trailing line: "", "true" or "false"
    check_disks_frame,    \* one call of check_disks from lines 262-265
    build_command_frame,  \* one call of build_command
    get_hostname_frame,   \* one call of get_hostname
    check_fields_frame, \* one call of check_fields of common/utils.py
    check_and_post_frame, \* two consecutive calls of check_and_post
    redfish_main_frame, \* main of create_glpi_computer_redfish.py: the loop over machines
    wrapper_parse_list_frame, \* parse_list of the redfish wrapper: the loop over lines
    reservation_parse_list_frame  \* parse_list of create_glpi_reservation.py: the loop over servers

vars == <<yaml_file, requirements, computers, disks, reservations, all_flag, pc, error, ri, ci,
          disks_satisfied, available, sorted_available, final_choices,
          taken_machines, index, limited, pick, report, fulfilled,
          check_disks_frame, build_command_frame, get_hostname_frame,
          check_fields_frame,
          check_and_post_frame,
          redfish_main_frame,
          wrapper_parse_list_frame,
          reservation_parse_list_frame>>

frames == <<check_disks_frame, build_command_frame, get_hostname_frame,
           check_fields_frame,
           check_and_post_frame,
           redfish_main_frame,
           wrapper_parse_list_frame,
           reservation_parse_list_frame>>

inputs == <<yaml_file, computers, disks, reservations, all_flag>>

----------------------------------------------------------------------------
(* Values *)

(* Python's None where the code holds a weight, and the ratio n / d.  A   *)
(* weight is [some, num, den]; some = FALSE is None.                      *)
NoWeight == [some |-> FALSE, num |-> 0, den |-> 1]

Ratio(n, d) == [some |-> TRUE, num |-> n, den |-> d]

(* Python truthiness of a weight: None and 0.0 are falsy *)
Truthy(w) == w.some /\ w.num # 0

(* a + b on ratios *)
RAdd(a, b) == Ratio(a.num * b.den + b.num * a.den, a.den * b.den)

(* a < b on ratios with positive denominators *)
RLess(a, b) == a.num * b.den < b.num * a.den

(* True / None as returned by check_graphics and check_network, and the   *)
(* three states of the local disks_satisfied                              *)
PyTrue == "True"
PyFalse == "False"
PyNone == "None"
Unbound == "Unbound"

(* a processor record without "nbcores", a memory record without "size":  *)
(* the value that stands for the absent field in the list of field values *)
NoField == -1

(* cpu["nbcores"] or dimm["size"] raises KeyError for one of the records *)
lacks_field(records) == \E k \in 1..Len(records) : records[k] = NoField

RECURSIVE SumSeq(_)
SumSeq(s) == IF s = <<>> THEN 0 ELSE Head(s) + SumSeq(Tail(s))

(* Python's `needle in haystack` on strings *)
IsSubstring(needle, hay) ==
    \E k \in 0..(Len(hay) - Len(needle)) :
        \A j \in 1..Len(needle) : hay[k + j] = needle[j]

RemoveAt(s, i) == [k \in 1..(Len(s) - 1) |-> IF k < i THEN s[k] ELSE s[k + 1]]

----------------------------------------------------------------------------
(* The eligibility checks *)

check_computer_reservable(reservation_items) ==
    \E k \in 1..Len(reservation_items) : reservation_items[k]

check_cpus(cpus, req_cpu) ==
    IF Len(cpus) >= req_cpu THEN Ratio(Len(cpus), req_cpu) ELSE NoWeight

check_cores(cpus, req_cores) ==
    IF SumSeq(cpus) >= req_cores THEN Ratio(SumSeq(cpus), req_cores) ELSE NoWeight

check_memory(memory, req_memory) ==
    IF SumSeq(memory) >= req_memory THEN Ratio(SumSeq(memory), req_memory) ELSE NoWeight

(* check_graphics that passes a computer without any graphics card *)
check_graphics_vacuous(graphics, req_gpu) ==
    IF graphics = <<>> \/ \E k \in 1..Len(graphics) : IsSubstring(req_gpu, graphics[k])
    THEN PyTrue ELSE PyNone

check_graphics(graphics, req_gpu) ==
    IF \E k \in 1..Len(graphics) : IsSubstring(req_gpu, graphics[k])
    THEN PyTrue ELSE PyNone

check_network(nics, req_nic) ==
    IF \E k \in 1..Len(nics) : nics[k] # <<>> /\ IsSubstring(req_nic, nics[k])
    THEN PyTrue ELSE PyNone

(* list.sort(key=itemgetter("storage")): a stable insertion sort *)
RECURSIVE InsertByStorage(_, _)
InsertByStorage(sorted, d) ==
    IF sorted = <<>> THEN <<d>>
    ELSE IF d.storage < Head(sorted).storage THEN <<d>> \o sorted
    ELSE <<Head(sorted)>> \o InsertByStorage(Tail(sorted), d)

RECURSIVE SortByStorage(_)
SortByStorage(s) ==
    IF s = <<>> THEN <<>>
    ELSE InsertByStorage(SortByStorage(SubSeq(s, 1, Len(s) - 1)), s[Len(s)])

(* valid_disk that wants a disk larger than the minimum *)
valid_disk_strict(req_disk, disk) ==
    /\ req_disk.storage < disk.totalsize
    /\ (req_disk.has_type => IsSubstring(req_disk.disk_type, disk.name))

(* lines 538-543: does this disk satisfy this requirement-disk *)
valid_disk(req_disk, disk) ==
    /\ req_disk.storage <= disk.totalsize
    /\ (req_disk.has_type => IsSubstring(req_disk.disk_type, disk.name))

(* FirstValid that takes the last requirement-disk the disk satisfies *)
FirstValid_last(req_disks, disk) ==
    IF \E i \in 1..Len(req_disks) : valid_disk(req_disks[i], disk)
    THEN CHOOSE i \in 1..Len(req_disks) :
            /\ valid_disk(req_disks[i], disk)
            /\ \A j \in (i + 1)..Len(req_disks) : ~valid_disk(req_disks[j], disk)
    ELSE 0

(* lines 535-547: the index of the first requirement-disk the disk satisfies, 0 if none *)
FirstValid(req_disks, disk) ==
    IF \E i \in 1..Len(req_disks) : valid_disk(req_disks[i], disk)
    THEN CHOOSE i \in 1..Len(req_disks) :
            /\ valid_disk(req_disks[i], disk)
            /\ \A j \in 1..(i - 1) : ~valid_disk(req_disks[j], disk)
    ELSE 0

(* lines 531-547: what is left of req_disks after the disks from position k on *)
RECURSIVE PopDisks(_, _, _, _)
PopDisks(computer_id, all_disks, k, req_disks) ==
    IF k > Len(all_disks) THEN req_disks
    ELSE IF all_disks[k].itemtype = "Computer" /\ all_disks[k].items_id = computer_id
              /\ FirstValid(req_disks, all_disks[k]) # 0
         THEN PopDisks(computer_id, all_disks, k + 1,
                       RemoveAt(req_disks, FirstValid(req_disks, all_disks[k])))
         ELSE PopDisks(computer_id, all_disks, k + 1, req_disks)

(* check_disks: the result, and the list it leaves behind in the caller's object *)
check_disks(computer_id, all_disks, req_disks) ==
    [ok   |-> PopDisks(computer_id, all_disks, 1, req_disks) = <<>>,
     left |-> PopDisks(computer_id, all_disks, 1, req_disks)]

(* window_conflict with strict comparisons *)
window_conflict_strict(reservation, req) ==
    \/ (reservation.Begins < req.start /\ req.start < reservation.Ends)
    \/ (reservation.Begins < req.end /\ req.end < reservation.Ends)

(* lines 279-287: does this reservation overlap the requirement's window, *)
(* as the code tests it                                                   *)
window_conflict(reservation, req) ==
    \/ (reservation.Begins <= req.start /\ req.start <= reservation.Ends)
    \/ (reservation.Begins <= req.end /\ req.end <= reservation.Ends)

(* lines 279-287: the test reads req["start"], and req["end"] when the    *)
(* first comparison chain is false                                        *)
window_keyerror(reservation, req) ==
    \/ "start" \notin req.keys
    \/ /\ ~(reservation.Begins <= req.start /\ req.start <= reservation.Ends)
       /\ "end" \notin req.keys

(* lines 216-218: the value the ReservationItem links leave in computer_reservable *)
computer_reservable(computer) ==
    /\ \E k \in 1..Len(computer.links) : computer.links[k] = "ReservationItem"
    /\ check_computer_reservable(computer.reservationitems)

(* The locals of one pass of the loop over computer["links"], lines 198-202 *)
FreshLocals ==
    [cpu_weight |-> NoWeight, core_weight |-> NoWeight, memory_weight |-> NoWeight,
     gpu |-> PyTrue, nic |-> PyTrue, brk |-> FALSE, err |-> ""]

(* lines 223-253: the body of the loop for one link *)
LinkStep(st, rel, req, computer) ==
    IF rel = "Item_DeviceProcessor" THEN
        IF "cpu" \notin req.keys \/ "cores" \notin req.keys
           \/ lacks_field(computer.processors)
        THEN [st EXCEPT !.err = "KeyError"]
        ELSE [st EXCEPT
                !.cpu_weight = check_cpus(computer.processors, req.cpu),
                !.core_weight = check_cores(computer.processors, req.cores),
                !.brk = ~(Truthy(check_cpus(computer.processors, req.cpu))
                           \/ Truthy(check_cores(computer.processors, req.cores)))]
    ELSE IF rel = "Item_DeviceMemory" THEN
        IF "ram" \notin req.keys \/ lacks_field(computer.memory)
        THEN [st EXCEPT !.err = "KeyError"]
        ELSE [st EXCEPT
                !.memory_weight = check_memory(computer.memory, req.ram),
                !.brk = ~Truthy(check_memory(computer.memory, req.ram))]
    ELSE IF "gpu" \in req.keys /\ rel = "Item_DeviceGraphicCard" THEN
        [st EXCEPT !.gpu = check_graphics(computer.graphics, req.gpu)]
    ELSE IF "nic" \in req.keys /\ rel = "Item_DeviceNetworkCard" THEN
        [st EXCEPT !.nic = check_network(computer.nics, req.nic)]
    ELSE st

(* lines 222-253: the loop, left at a break or at an exception *)
RECURSIVE LinkLoop(_, _, _, _)
LinkLoop(st, k, req, computer) ==
    IF k > Len(computer.links) \/ st.brk \/ st.err # "" THEN st
    ELSE LinkLoop(LinkStep(st, computer.links[k], req, computer), k + 1, req, computer)

(* lines 254-258 *)
hardware_fails(st) ==
    ~(Truthy(st.cpu_weight) \/ Truthy(st.core_weight)) \/ ~Truthy(st.memory_weight)

(* lines 261-265: the requirement's disk list after the in-place sort and *)
(* the pops of check_disks (the list is the requirement's own object)     *)
disks_after(req, computer_id, all_disks) ==
    IF "disks" \in req.keys
    THEN check_disks(computer_id, all_disks, SortByStorage(req.disks)).left
    ELSE req.disks

(* lines 261-265: the local disks_satisfied after them *)
disks_satisfied_after(req, computer_id, all_disks, before) ==
    IF "disks" \in req.keys
    THEN IF check_disks(computer_id, all_disks, SortByStorage(req.disks)).ok
         THEN PyTrue ELSE PyFalse
    ELSE before

(* lines 267-273: the conjuncts Python evaluates before it reads disks_satisfied *)
before_disks_satisfied(st) ==
    /\ Truthy(st.cpu_weight) /\ Truthy(st.core_weight) /\ Truthy(st.memory_weight)
    /\ st.gpu = PyTrue /\ st.nic = PyTrue

(* line 278: the reservations that carry the key "Computer <id>" *)
reservations_of(computer_id, all_reservations) ==
    {k \in 1..Len(all_reservations) : all_reservations[k].items_id = computer_id}

(* lines 276-289 *)
reservation_free(req, computer_id, all_reservations) ==
    \A k \in reservations_of(computer_id, all_reservations) :
        ~window_conflict(all_reservations[k], req)

(* line 290 *)
total_weight(st) == RAdd(RAdd(st.cpu_weight, st.core_weight), st.memory_weight)

(* One pass of the inner loop of reservable, lines 197-298, for one       *)
(* (requirement, computer) pair: the exception it raises if any, what it  *)
(* leaves in the requirement's disk list and in disks_satisfied, and      *)
(* whether it adds the computer to available[requirement].                *)
EvalPair(req, computer, computer_id, all_disks, all_reservations, ds) ==
    LET st == LinkLoop(FreshLocals, 1, req, computer)
        same == [err |-> "", req_disks |-> req.disks, disks_satisfied |-> ds,
                 candidate |-> FALSE, total_weight |-> NoWeight]
        ds2 == disks_satisfied_after(req, computer_id, all_disks, ds)
        after == [same EXCEPT !.req_disks = disks_after(req, computer_id, all_disks),
                              !.disks_satisfied = ds2]
    IN  IF ~computer_reservable(computer) THEN same
        ELSE IF st.err # "" THEN [same EXCEPT !.err = st.err]
        ELSE IF hardware_fails(st) THEN same
        ELSE IF ~before_disks_satisfied(st) THEN after
        ELSE IF ds2 = Unbound THEN [after EXCEPT !.err = "UnboundLocalError"]
        ELSE IF ds2 # PyTrue THEN after
        ELSE IF \E k \in reservations_of(computer_id, all_reservations) :
                    window_keyerror(all_reservations[k], req)
             THEN [after EXCEPT !.err = "KeyError"]
        ELSE IF ~reservation_free(req, computer_id, all_reservations) THEN after
        ELSE [after EXCEPT !.candidate = TRUE, !.total_weight = total_weight(st)]

----------------------------------------------------------------------------
(* The matching engine, lines 300-339 *)

(* available[r][id]["total_weight"] *)
WeightOf(av, r, id) ==
    LET k == CHOOSE k \in 1..Len(av[r]) : av[r][k].id = id
    IN  av[r][k].total_weight

(* curr < min, where min = float("inf") is NoWeight *)
BelowMin(curr, min) == ~min.some \/ RLess(curr, min)

(* sorted(available[r], key=total_weight): stable, so equal weights keep  *)
(* the order in which the computers were added                            *)
RECURSIVE InsertByWeight(_, _)
InsertByWeight(sorted, c) ==
    IF sorted = <<>> THEN <<c>>
    ELSE IF RLess(c.total_weight, Head(sorted).total_weight) THEN <<c>> \o sorted
    ELSE <<Head(sorted)>> \o InsertByWeight(Tail(sorted), c)

RECURSIVE SortByWeight(_)
SortByWeight(cands) ==
    IF cands = <<>> THEN <<>>
    ELSE InsertByWeight(SortByWeight(SubSeq(cands, 1, Len(cands) - 1)), cands[Len(cands)])

(* sorted_requirement without the sort *)
sorted_requirement_unsorted(cands) == [k \in 1..Len(cands) |-> cands[k].id]

sorted_requirement(cands) == [k \in 1..Len(cands) |-> SortByWeight(cands)[k].id]

(* in_range that also wants an entry two places after the index *)
in_range_short(ids, idx) == (Len(ids) - 2) > idx

(* line 314: the requirement takes the index branch of round idx *)
in_range(ids, idx) == (Len(ids) - 1) > idx

(* lines 325-331: the scan of every candidate of a requirement *)
RECURSIVE ScanAll(_, _, _, _, _)
ScanAll(av, sa, r, j, acc) ==
    IF j > Len(sa[r]) THEN acc
    ELSE ScanAll(av, sa, r, j + 1,
                 IF BelowMin(WeightOf(av, r, sa[r][j]), acc.min)
                 THEN [acc EXCEPT !.min = WeightOf(av, r, sa[r][j]), !.pick = r]
                 ELSE acc)

(* lines 314-331: the body of the loop over sorted_available for one requirement *)
ScanStep(av, sa, idx, r, acc) ==
    IF ~acc.limited /\ in_range(sa[r], idx)
    THEN IF BelowMin(WeightOf(av, r, sa[r][idx + 1]), acc.min)
         THEN [acc EXCEPT !.min = WeightOf(av, r, sa[r][idx + 1]), !.pick = r]
         ELSE acc
    ELSE ScanAll(av, sa, r, 1,
                 IF ~acc.limited
                 THEN [acc EXCEPT !.limited = TRUE, !.min = NoWeight]
                 ELSE acc)

(* lines 310-331: the loop over sorted_available, in insertion order, from r on *)
RECURSIVE Scan(_, _, _, _, _, _)
Scan(av, sa, idx, r, n, acc) ==
    IF r > n THEN acc
    ELSE Scan(av, sa, idx, r + 1, n,
              IF r \in DOMAIN sa THEN ScanStep(av, sa, idx, r, acc) ELSE acc)

(* lines 310-312: pick = None is 0 *)
FreshRound == [min |-> NoWeight, pick |-> 0, limited |-> FALSE]

(* first_free that compares with the machine taken last only *)
first_free_last_only(ids, taken) ==
    IF \E k \in 1..Len(ids) : taken = <<>> \/ taken[Len(taken)] # ids[k]
    THEN ids[CHOOSE k \in 1..Len(ids) :
                /\ (taken = <<>> \/ taken[Len(taken)] # ids[k])
                /\ \A j \in 1..(k - 1) : taken # <<>> /\ taken[Len(taken)] = ids[j]]
    ELSE 0

(* first_free that takes the last choice that is not taken *)
first_free_last(ids, taken) ==
    IF \E k \in 1..Len(ids) : \A t \in 1..Len(taken) : taken[t] # ids[k]
    THEN ids[CHOOSE k \in 1..Len(ids) :
                /\ \A t \in 1..Len(taken) : taken[t] # ids[k]
                /\ \A j \in (k + 1)..Len(ids) : \E t \in 1..Len(taken) : taken[t] = ids[j]]
    ELSE 0

(* first_free without the test on taken_machines *)
first_free_any(ids, taken) == ids[1]

(* lines 333-338: the first choice of the pick that is not taken, 0 if none *)
first_free(ids, taken) ==
    IF \E k \in 1..Len(ids) : \A t \in 1..Len(taken) : taken[t] # ids[k]
    THEN ids[CHOOSE k \in 1..Len(ids) :
                /\ \A t \in 1..Len(taken) : taken[t] # ids[k]
                /\ \A j \in 1..(k - 1) : \E t \in 1..Len(taken) : taken[t] = ids[j]]
    ELSE 0

Restrict(f, S) == [x \in S |-> f[x]]

Extend(f, x, v) == [y \in (DOMAIN f) \cup {x} |-> IF y = x THEN v ELSE f[y]]

----------------------------------------------------------------------------
(* The report, lines 374-396 *)

(* one Recommendations entry: computer_id 0 is the printed None *)
recommendation(fc, r) ==
    [requirement |-> r, computer_id |-> IF r \in DOMAIN fc THEN fc[r] ELSE 0]

(* all_reserved set, not cleared, by every pass of the loop *)
all_reserved_last(fc, r, n, flag) == IF n = 0 THEN flag ELSE n \in DOMAIN fc

(* the flag all_reserved after the loop over the requirements from r on *)
RECURSIVE all_reserved(_, _, _, _)
all_reserved(fc, r, n, flag) ==
    IF r > n THEN flag
    ELSE all_reserved(fc, r + 1, n, IF r \in DOMAIN fc THEN flag ELSE FALSE)

----------------------------------------------------------------------------
(* Inputs *)

MaxReqs == 3
MaxComputers == 2
MaxTime == 3

SeqsOf(S, lo, hi) == UNION {[1..k -> S] : k \in lo..hi}

AllLinks ==
    <<"ReservationItem", "Item_DeviceProcessor", "Item_DeviceMemory",
      "Item_DeviceNetworkCard", "Item_DeviceGraphicCard">>

FullKeys == {"cpu", "cores", "ram", "disks", "start", "end"}

ReqDisk(storage) == [storage |-> storage, has_type |-> FALSE, disk_type |-> <<>>]

TypedReqDisk(storage, type) == [storage |-> storage, has_type |-> TRUE, disk_type |-> type]

BaseReq ==
    [keys |-> FullKeys, cpu |-> 1, cores |-> 1, ram |-> 1, gpu |-> <<>>, nic |-> <<>>,
     disks |-> <<ReqDisk(1)>>, start |-> 1, end |-> 1]

BaseComputer ==
    [links |-> AllLinks, reservationitems |-> <<TRUE>>, processors |-> <<1>>,
     memory |-> <<1>>, graphics |-> <<>>, nics |-> <<>>]

Disk(id, size, name) ==
    [itemtype |-> "Computer", items_id |-> id, totalsize |-> size, name |-> name]

Sda == <<"s", "d", "a">>
Nvme == <<"n", "v", "m", "e">>

(* get_disks, line 161: disks.sort(key=itemgetter("totalsize")), stable *)
RECURSIVE InsertByTotalsize(_, _)
InsertByTotalsize(sorted, d) ==
    IF sorted = <<>> THEN <<d>>
    ELSE IF d.totalsize < Head(sorted).totalsize THEN <<d>> \o sorted
    ELSE <<Head(sorted)>> \o InsertByTotalsize(Tail(sorted), d)

RECURSIVE get_disks(_)
get_disks(items) ==
    IF items = <<>> THEN <<>>
    ELSE InsertByTotalsize(get_disks(SubSeq(items, 1, Len(items) - 1)), items[Len(items)])

(* one disk of size 1 on every computer *)
OneDiskEach(n) == [c \in 1..n |-> Disk(c, 1, Sda)]

(* Matching scenarios: up to MaxReqs requirements that ask for (cores,    *)
(* ram) of 1/1, 1/2 or 2/2, up to MaxComputers reservable computers that  *)
(* have as much, a disk on every computer, no reservations.               *)
MatchSizes == {<<1, 1>>, <<1, 2>>, <<2, 2>>}

MatchReqs == {[BaseReq EXCEPT !.cores = z[1], !.ram = z[2]] : z \in MatchSizes}

MatchComputers ==
    {[BaseComputer EXCEPT !.processors = <<z[1]>>, !.memory = <<z[2]>>] : z \in MatchSizes}

ScenMatch ==
    {[requirements |-> rs, computers |-> cs, disks |-> OneDiskEach(Len(cs)),
      reservations |-> <<>>] :
        rs \in SeqsOf(MatchReqs, 1, MaxReqs), cs \in SeqsOf(MatchComputers, 1, MaxComputers)}

(* Window scenarios: one requirement with a window in 1..MaxTime (or with *)
(* no window), two computers, up to two reservations of either.           *)
Windows == {w \in (1..MaxTime) \X (1..MaxTime) : w[1] <= w[2]}

WindowReqs ==
    {[BaseReq EXCEPT !.start = w[1], !.end = w[2]] : w \in Windows}
    \cup {[BaseReq EXCEPT !.keys = FullKeys \ {"start", "end"}, !.start = 0, !.end = 0]}

Reservation(id, w) == [items_id |-> id, Begins |-> w[1], Ends |-> w[2]]

ReservationLists ==
    LET one == {Reservation(id, w) : id \in {1, 2}, w \in Windows}
    IN  {<<>>} \cup {<<a>> : a \in one} \cup {<<a, b>> : a \in one, b \in one}

ScenWindow ==
    {[requirements |-> <<r>>, computers |-> <<BaseComputer, BaseComputer>>,
      disks |-> OneDiskEach(2), reservations |-> rv] :
        r \in WindowReqs, rv \in ReservationLists}

(* Feature scenarios: one requirement that may ask for a GPU and a NIC,   *)
(* one or two computers with and without matching cards.                  *)
T4 == <<"T", "4">>
X7 == <<"X", "7">>

FeatureReqs ==
    {[BaseReq EXCEPT !.keys = FullKeys \cup k, !.gpu = T4, !.nic = X7] :
        k \in SUBSET {"gpu", "nic"}}

FeatureComputers ==
    {[BaseComputer EXCEPT !.graphics = g, !.nics = n] :
        g \in {<<>>, <<T4>>, <<<<"V", "1">>, <<"N", "T", "4", "x">>>>, <<<<"V", "1">>>>},
        n \in {<<>>, << <<>> >>, <<X7>>, <<<<"E", "8">>>>}}

ScenFeature ==
    {[requirements |-> <<r>>, computers |-> cs, disks |-> OneDiskEach(Len(cs)),
      reservations |-> <<>>] :
        r \in FeatureReqs, cs \in SeqsOf(FeatureComputers, 1, 2)}

(* Disk scenarios: one or two requirements with and without a disk list,  *)
(* two computers with zero to two disks each.                             *)
DiskReqs ==
    {[BaseReq EXCEPT !.keys = FullKeys \ {"disks"}, !.disks = <<>>]}
    \cup {[BaseReq EXCEPT !.disks = d] :
            d \in {<<ReqDisk(1)>>, <<ReqDisk(2), ReqDisk(1)>>,
                   <<TypedReqDisk(1, <<"n", "v">>)>>}}

DisksOf(id) ==
    {<<>>, <<Disk(id, 1, Sda)>>, <<Disk(id, 2, Nvme)>>,
     <<Disk(id, 2, Nvme), Disk(id, 1, Sda)>>}

ScenDisks ==
    {[requirements |-> rs, computers |-> <<BaseComputer, BaseComputer>>,
      disks |-> get_disks(d1 \o d2), reservations |-> <<>>] :
        rs \in SeqsOf(DiskReqs, 1, 2), d1 \in DisksOf(1), d2 \in DisksOf(2)}

(* Malformed scenarios: requirements that may lack one required key, and  *)
(* an inventory of one or two computers that may not be reservable or     *)
(* may lack processors or memory.                                         *)
MalformedReqs ==
    {BaseReq} \cup {[BaseReq EXCEPT !.keys = FullKeys \ {k}] : k \in {"cpu", "cores", "ram"}}

MixedComputers ==
    {BaseComputer,
     [BaseComputer EXCEPT !.reservationitems = <<FALSE>>],
     [BaseComputer EXCEPT !.reservationitems = <<>>],
     [BaseComputer EXCEPT !.processors = <<>>],
     [BaseComputer EXCEPT !.memory = <<>>]}

ScenMalformed ==
    {[requirements |-> rs, computers |-> cs, disks |-> OneDiskEach(Len(cs)),
      reservations |-> <<>>] :
        rs \in SeqsOf(MalformedReqs, 1, 2), cs \in SeqsOf(MixedComputers, 1, 2)}

(* Sub-record scenarios: complete requirements, an inventory of one or    *)
(* two computers whose processor or memory records may lack the field the *)
(* check reads.                                                           *)
BrokenComputers ==
    {BaseComputer,
     [BaseComputer EXCEPT !.processors = <<NoField>>],
     [BaseComputer EXCEPT !.processors = <<1, NoField>>],
     [BaseComputer EXCEPT !.memory = <<NoField>>],
     [BaseComputer EXCEPT !.reservationitems = <<FALSE>>, !.memory = <<NoField>>]}

ScenBroken ==
    {[requirements |-> rs, computers |-> cs, disks |-> OneDiskEach(Len(cs)),
      reservations |-> <<>>] :
        rs \in SeqsOf({BaseReq}, 1, 2), cs \in SeqsOf(BrokenComputers, 1, 2)}

(* Ample scenarios: two requirements and three computers, so that a      *)
(* requirement can have more candidates than there are requirements.      *)
ScenAmple ==
    {[requirements |-> rs, computers |-> cs, disks |-> OneDiskEach(3),
      reservations |-> <<>>] :
        rs \in SeqsOf(MatchReqs, 2, 2), cs \in SeqsOf(MatchComputers, 3, 3)}

Scenarios ==
    ScenMatch \cup ScenWindow \cup ScenFeature \cup ScenDisks \cup ScenMalformed
    \cup ScenBroken \cup ScenAmple

----------------------------------------------------------------------------
(* The run: main, lines 71-82 *)

NoChoices == [r \in {} |-> 0]

(* a function that is not being called *)
NoCall == [pc |-> "idle"]

Init ==
    /\ \E sc \in Scenarios :
        /\ yaml_file = sc.requirements
        /\ requirements = sc.requirements
        /\ computers = sc.computers
        /\ disks = sc.disks
        /\ reservations = sc.reservations
        /\ pc = "eval"
        /\ available = [r \in 1..Len(sc.requirements) |-> <<>>]
    /\ all_flag \in BOOLEAN
    /\ error = ""
    /\ ri = 1
    /\ ci = 1
    /\ disks_satisfied = Unbound
    /\ sorted_available = NoChoices
    /\ final_choices = NoChoices
    /\ taken_machines = <<>>
    /\ index = 0
    /\ limited = FALSE
    /\ pick = 0
    /\ report = <<>>
    /\ fulfilled = ""
    /\ check_disks_frame = NoCall
    /\ build_command_frame = NoCall
    /\ get_hostname_frame = NoCall
    /\ check_fields_frame = NoCall
    /\ check_and_post_frame = NoCall
    /\ redfish_main_frame = NoCall
    /\ wrapper_parse_list_frame = NoCall
    /\ reservation_parse_list_frame = NoCall

(* reservable, lines 195-298: one pass of the inner loop *)
Evaluate ==
    /\ pc = "eval"
    /\ LET res == EvalPair(requirements[ri], computers[ci], ci, disks, reservations,
                           disks_satisfied)
       IN  /\ requirements' = [requirements EXCEPT ![ri].disks = res.req_disks]
           /\ disks_satisfied' = res.disks_satisfied
           /\ IF res.err # ""
              THEN /\ pc' = "crashed"
                   /\ error' = res.err
                   /\ UNCHANGED <<ri, ci, available>>
              ELSE /\ available' =
                        IF res.candidate
                        THEN [available EXCEPT ![ri] =
                                Append(@, [id |-> ci, total_weight |-> res.total_weight])]
                        ELSE available
                   /\ error' = error
                   /\ IF ci < Len(computers)
                      THEN ci' = ci + 1 /\ ri' = ri /\ pc' = "eval"
                      ELSE IF ri < Len(requirements)
                           THEN ci' = 1 /\ ri' = ri + 1 /\ pc' = "eval"
                           ELSE ci' = ci /\ ri' = ri /\ pc' = "sort"
    /\ UNCHANGED <<frames, inputs, sorted_available, final_choices, taken_machines, index,
                   limited, pick, report, fulfilled>>

(* reservable, lines 300-308 *)
SortAvailable ==
    /\ pc = "sort"
    /\ sorted_available' =
            [r \in {q \in 1..Len(requirements) : available[q] # <<>>} |->
                sorted_requirement(available[r])]
    /\ final_choices' = NoChoices
    /\ taken_machines' = <<>>
    /\ index' = 0
    /\ pc' = "round"
    /\ UNCHANGED <<frames, requirements, inputs, error, ri, ci, disks_satisfied, available,
                   limited, pick, report, fulfilled>>

(* reservable, lines 309-338: one round of the matching loop *)
Round ==
    /\ pc = "round"
    /\ LET acc == Scan(available, sorted_available, index, 1, Len(requirements), FreshRound)
           choice == IF acc.pick = 0 THEN 0
                     ELSE first_free(sorted_available[acc.pick], taken_machines)
       IN  /\ limited' = acc.limited
           /\ pick' = acc.pick
           /\ IF choice # 0
              THEN /\ taken_machines' = Append(taken_machines, choice)
                   /\ final_choices' = Extend(final_choices, acc.pick, choice)
                   /\ sorted_available' =
                        Restrict(sorted_available, (DOMAIN sorted_available) \ {acc.pick})
              ELSE UNCHANGED <<taken_machines, final_choices, sorted_available>>
    /\ index' = index + 1
    /\ pc' = IF index + 1 < Len(requirements) THEN "round" ELSE "print"
    /\ UNCHANGED <<frames, requirements, inputs, error, ri, ci, disks_satisfied, available,
                   report, fulfilled>>

(* print_final_decision, lines 374-396 *)
PrintFinalDecision ==
    /\ pc = "print"
    /\ report' = [r \in 1..Len(requirements) |-> recommendation(final_choices, r)]
    /\ fulfilled' = IF all_reserved(final_choices, 1, Len(requirements), TRUE)
                    THEN "true" ELSE "false"
    /\ pc' = "done"
    /\ UNCHANGED <<frames, requirements, inputs, error, ri, ci, disks_satisfied, available,
                   sorted_available, final_choices, taken_machines, index, limited, pick>>

Next == Evaluate \/ SortAvailable \/ Round \/ PrintFinalDecision

Spec == Init /\ [][Next]_vars

----------------------------------------------------------------------------
(* One call of check_disks, as reservable makes it (lines 262-265) *)

MaxDisks == 2
MaxReqDisks == 2

(* the script is not running *)
NoRun ==
    /\ yaml_file = <<>> /\ requirements = <<>> /\ computers = <<>> /\ disks = <<>>
    /\ reservations = <<>> /\ all_flag = FALSE /\ pc = "idle" /\ error = ""
    /\ ri = 1 /\ ci = 1 /\ disks_satisfied = Unbound /\ available = <<>>
    /\ sorted_available = NoChoices /\ final_choices = NoChoices
    /\ taken_machines = <<>> /\ index = 0 /\ limited = FALSE /\ pick = 0
    /\ report = <<>> /\ fulfilled = ""

run_vars ==
    <<yaml_file, requirements, computers, disks, reservations, all_flag, pc, error, ri, ci,
      disks_satisfied, available, sorted_available, final_choices,
      taken_machines, index, limited, pick, report, fulfilled>>

(* the disk items of computers 1 and 2, in any order *)
DiskItems ==
    {Disk(id, size, name) : id \in {1, 2}, size \in {150, 600}, name \in {Sda, Nvme}}
    \cup {[Disk(1, 600, Sda) EXCEPT !.itemtype = "NetworkEquipment"]}

DiskRequests == {ReqDisk(100), ReqDisk(150), ReqDisk(500), TypedReqDisk(100, <<"n", "v">>)}

(* computer_id, disks: the arguments; given: the requirement's disk list  *)
(* as the file has it; disks_req: the list object that line 263 sorts and *)
(* check_disks pops from; k: the position of `for disk in disks`          *)
InitDisks ==
    /\ NoRun
    /\ build_command_frame = NoCall
    /\ get_hostname_frame = NoCall
    /\ check_fields_frame = NoCall
    /\ check_and_post_frame = NoCall
    /\ redfish_main_frame = NoCall
    /\ wrapper_parse_list_frame = NoCall
    /\ reservation_parse_list_frame = NoCall
    /\ \E ds \in SeqsOf(DiskItems, 0, MaxDisks) :
       \E rq \in SeqsOf(DiskRequests, 0, MaxReqDisks) :
            check_disks_frame =
                [pc |-> "call", computer_id |-> 1, disks |-> ds, given |-> rq,
                 disks_req |-> rq, k |-> 1, result |-> PyNone]

(* line 263 and the call of line 265 *)
SortDisksReq ==
    /\ check_disks_frame.pc = "call"
    /\ check_disks_frame' =
            [check_disks_frame EXCEPT !.disks_req = SortByStorage(@), !.pc = "loop"]
    /\ UNCHANGED <<run_vars, build_command_frame, get_hostname_frame,
                   check_fields_frame,
                   check_and_post_frame,
                   redfish_main_frame,
                   wrapper_parse_list_frame,
                   reservation_parse_list_frame>>

(* lines 531-547: the body of `for disk in disks` for one disk *)
CheckDisksStep ==
    /\ check_disks_frame.pc = "loop"
    /\ check_disks_frame.k <= Len(check_disks_frame.disks)
    /\ LET f == check_disks_frame
           disk == f.disks[f.k]
           i == IF disk.itemtype = "Computer" /\ disk.items_id = f.computer_id
                THEN FirstValid(f.disks_req, disk) ELSE 0
       IN  check_disks_frame' =
                [f EXCEPT !.k = @ + 1,
                          !.disks_req = IF i # 0 THEN RemoveAt(@, i) ELSE @]
    /\ UNCHANGED <<run_vars, build_command_frame, get_hostname_frame,
                   check_fields_frame,
                   check_and_post_frame,
                   redfish_main_frame,
                   wrapper_parse_list_frame,
                   reservation_parse_list_frame>>

(* lines 549-552 *)
CheckDisksReturn ==
    /\ check_disks_frame.pc = "loop"
    /\ check_disks_frame.k > Len(check_disks_frame.disks)
    /\ check_disks_frame' =
            [check_disks_frame EXCEPT
                !.result = IF check_disks_frame.disks_req # <<>> THEN PyFalse ELSE PyTrue,
                !.pc = "returned"]
    /\ UNCHANGED <<run_vars, build_command_frame, get_hostname_frame,
                   check_fields_frame,
                   check_and_post_frame,
                   redfish_main_frame,
                   wrapper_parse_list_frame,
                   reservation_parse_list_frame>>

NextDisks == SortDisksReq \/ CheckDisksStep \/ CheckDisksReturn

SpecDisks == InitDisks /\ [][NextDisks]_vars

----------------------------------------------------------------------------
(* build_command of population/create_glpi_computer_redfish_wrapper.py *)

(* A Python string here is [lead, text, trail]: text with lead and trail   *)
(* whitespace characters around it (text neither starts nor ends with     *)
(* whitespace); none marks the value None that argparse gives an option   *)
(* that is not on the command line.                                       *)
Str(text) == [none |-> FALSE, lead |-> 0, text |-> text, trail |-> 0]

Padded(lead, text, trail) == [none |-> FALSE, lead |-> lead, text |-> text, trail |-> trail]

NoArg == [none |-> TRUE, lead |-> 0, text |-> "", trail |-> 0]

(* str.strip() *)
strip(s) == [s EXCEPT !.lead = 0, !.trail = 0]

(* the truth value of a string or of None *)
IsSet(s) == ~s.none /\ (s.text # "" \/ s.lead + s.trail > 0)

(* command.extend(group) if cond *)
extend_if(cond, group) == IF cond THEN group ELSE <<>>

(* the Sunbird group appended as soon as one of the three is given *)
sunbird_group_any(sunbird_username, sunbird_password, sunbird_url) ==
    extend_if(IsSet(sunbird_username) \/ IsSet(sunbird_password) \/ IsSet(sunbird_url),
              <<Str("-U"), sunbird_username, Str("-P"), sunbird_password,
                Str("-S"), sunbird_url>>)

(* lines 296-306 *)
sunbird_group(sunbird_username, sunbird_password, sunbird_url) ==
    extend_if(IsSet(sunbird_username) /\ IsSet(sunbird_password) /\ IsSet(sunbird_url),
              <<Str("-U"), sunbird_username, Str("-P"), sunbird_password,
                Str("-S"), sunbird_url>>)

(* lines 263-309 *)
build_command(split_line, general_config, user_token, ip, no_dns, sku, switch_config, no_verify, put, experiment, overwrite, sunbird_username, sunbird_password, sunbird_url, sunbird_config) ==
    <<Str("./create_glpi_computer_redfish.py"),
      Str("-g"), general_config,
      Str("-t"), user_token,
      Str("--ipmi_ip"), strip(split_line[1]),
      Str("--ipmi_user"), strip(split_line[2]),
      Str("--ipmi_pass"), strip(split_line[3]),
      Str("--public_ip"), strip(split_line[4]),
      Str("--lab"), strip(split_line[5]),
      Str("-i"), ip>>
    \o extend_if(IsSet(no_dns), <<Str("-n"), no_dns>>)
    \o extend_if(sku, <<Str("-s")>>)
    \o extend_if(IsSet(switch_config), <<Str("-c"), switch_config>>)
    \o extend_if(no_verify, <<Str("-v")>>)
    \o extend_if(put, <<Str("-p")>>)
    \o extend_if(experiment, <<Str("-e")>>)
    \o extend_if(overwrite, <<Str("-o")>>)
    \o sunbird_group(sunbird_username, sunbird_password, sunbird_url)
    \o extend_if(IsSet(sunbird_config), <<Str("-C"), sunbird_config>>)

(* a line of the machine file split at the commas (wrapper, line 184):    *)
(* as in the tests, and with blanks after the commas and the newline that *)
(* readlines leaves on the last field                                     *)
MachineLines ==
    {<<Str("10.0.0.1"), Str("user"), Str("pass"), Str("10.0.0.2"), Str("Lab")>>,
     <<Str("10.0.0.1"), Padded(1, "user", 0), Padded(1, "pass", 1),
       Padded(1, "10.0.0.2", 0), Padded(1, "Lab", 1)>>}

(* a string option of the wrapper: absent, or given with this value *)
Option(value) == {NoArg, Str(value)}

(* a Sunbird option: absent, given empty, or given with this value *)
SunbirdOption(value) == {NoArg, Str(""), Str(value)}

InitCommand ==
    /\ NoRun
    /\ check_disks_frame = NoCall
    /\ get_hostname_frame = NoCall
    /\ check_fields_frame = NoCall
    /\ check_and_post_frame = NoCall
    /\ redfish_main_frame = NoCall
    /\ wrapper_parse_list_frame = NoCall
    /\ reservation_parse_list_frame = NoCall
    /\ \E line \in MachineLines, no_dns \in Option("test"),
          switch_config \in Option("switch.yaml"), sunbird_config \in Option("sunbird.yaml"),
          sunbird_username \in SunbirdOption("sb_user"),
          sunbird_password \in SunbirdOption("sb_pass"),
          sunbird_url \in SunbirdOption("sb_url"),
          flags \in [{"sku", "no_verify", "put", "experiment", "overwrite"} -> BOOLEAN] :
            build_command_frame =
                [pc |-> "call", split_line |-> line,
                 general_config |-> Str("/fake/file/path"), user_token |-> Str("faketoken"),
                 ip |-> Str("127.0.0.1"), no_dns |-> no_dns, sku |-> flags["sku"],
                 switch_config |-> switch_config, no_verify |-> flags["no_verify"],
                 put |-> flags["put"], experiment |-> flags["experiment"],
                 overwrite |-> flags["overwrite"], sunbird_username |-> sunbird_username,
                 sunbird_password |-> sunbird_password, sunbird_url |-> sunbird_url,
                 sunbird_config |-> sunbird_config, command |-> <<>>]

(* wrapper, lines 187-203: the call for one line of the machine file *)
BuildCommand ==
    /\ build_command_frame.pc = "call"
    /\ LET f == build_command_frame
       IN  build_command_frame' =
                [f EXCEPT !.pc = "returned",
                          !.command =
                              build_command(f.split_line, f.general_config, f.user_token,
                                            f.ip, f.no_dns, f.sku, f.switch_config,
                                            f.no_verify, f.put, f.experiment, f.overwrite,
                                            f.sunbird_username, f.sunbird_password,
                                            f.sunbird_url, f.sunbird_config)]
    /\ UNCHANGED <<run_vars, check_disks_frame, get_hostname_frame,
                   check_fields_frame,
                   check_and_post_frame,
                   redfish_main_frame,
                   wrapper_parse_list_frame,
                   reservation_parse_list_frame>>

NextCommand == BuildCommand

SpecCommand == InitCommand /\ [][NextCommand]_vars

----------------------------------------------------------------------------
(* get_hostname of population/create_glpi_computer_redfish.py *)

(* the value of the sku argument: args.sku (a bool), a string as in the   *)
(* tests, or None                                                         *)
SkuArguments ==
    {[type |-> "NoneType", value |-> ""], [type |-> "bool", value |-> "False"],
     [type |-> "bool", value |-> "True"], [type |-> "str", value |-> ""],
     [type |-> "str", value |-> "ABC123"]}

(* the truth value of such a value *)
IsTrue(v) ==
    CASE v.type = "NoneType" -> FALSE
      [] v.type = "bool" -> v.value = "True"
      [] v.type = "str" -> v.value # ""

(* the System resource read from Redfish: the keys it has, and the values *)
(* of SKU and SerialNumber where it has them                              *)
SystemRecords ==
    {[keys |-> k, SKU |-> sku, SerialNumber |-> "SN123"] :
        k \in SUBSET {"Manufacturer", "SKU", "SerialNumber"}, sku \in {"XYZ456", ""}}

(* socket.gethostbyaddr(public_ip): the primary host name, socket.herror  *)
(* when the resolver has no name for the address, socket.gaierror when    *)
(* the argument is a host name that does not resolve to an address        *)
IpLiterals == {"10.0.0.2"}

Lookups(public_ip) ==
    {[status |-> "ok", name |-> n] : n \in {"hostname.example.com", "bmc7"}}
    \cup {[status |-> "herror", name |-> ""]}
    \cup (IF public_ip \in IpLiterals THEN {} ELSE {[status |-> "gaierror", name |-> ""]})

(* get_hostname that uses the SKU whenever the record has one *)
get_hostname_ignores_option(lookup, sku, system_json) ==
    IF lookup.status = "ok" THEN [hostname |-> lookup.name, error |-> ""]
    ELSE IF lookup.status # "herror" THEN [hostname |-> "", error |-> lookup.status]
    ELSE IF "SKU" \in system_json.keys
         THEN [hostname |-> system_json.SKU, error |-> ""]
    ELSE IF "SerialNumber" \in system_json.keys
         THEN [hostname |-> system_json.SerialNumber, error |-> ""]
    ELSE [hostname |-> "", error |-> "KeyError"]

(* lines 494-504; lookup is what socket.gethostbyaddr(public_ip) does *)
get_hostname(lookup, sku, system_json) ==
    IF lookup.status = "ok" THEN [hostname |-> lookup.name, error |-> ""]
    ELSE IF lookup.status # "herror" THEN [hostname |-> "", error |-> lookup.status]
    ELSE IF IsTrue(sku) /\ "SKU" \in system_json.keys
         THEN [hostname |-> system_json.SKU, error |-> ""]
    ELSE IF "SerialNumber" \in system_json.keys
         THEN [hostname |-> system_json.SerialNumber, error |-> ""]
    ELSE [hostname |-> "", error |-> "KeyError"]

InitHostname ==
    /\ NoRun
    /\ check_disks_frame = NoCall
    /\ build_command_frame = NoCall
    /\ check_fields_frame = NoCall
    /\ check_and_post_frame = NoCall
    /\ redfish_main_frame = NoCall
    /\ wrapper_parse_list_frame = NoCall
    /\ reservation_parse_list_frame = NoCall
    /\ \E public_ip \in IpLiterals \cup {"bmc7.lab"}, sku \in SkuArguments,
          system_json \in SystemRecords :
       \E lookup \in Lookups(public_ip) :
            get_hostname_frame =
                [pc |-> "call", public_ip |-> public_ip, gethostbyaddr |-> lookup,
                 sku |-> sku, system_json |-> system_json, hostname |-> "", error |-> ""]

(* main, line 242: hostname = get_hostname(machine["public_ip"], sku, system_json) *)
GetHostname ==
    /\ get_hostname_frame.pc = "call"
    /\ LET f == get_hostname_frame
           res == get_hostname(f.gethostbyaddr, f.sku, f.system_json)
       IN  get_hostname_frame' =
                [f EXCEPT !.pc = IF res.error = "" THEN "returned" ELSE "raised",
                          !.hostname = res.hostname,
                          !.error = res.error]
    /\ UNCHANGED <<run_vars, check_disks_frame, build_command_frame,
                   check_fields_frame,
                   check_and_post_frame,
                   redfish_main_frame,
                   wrapper_parse_list_frame,
                   reservation_parse_list_frame>>

NextHostname == GetHostname

SpecHostname == InitHostname /\ [][NextHostname]_vars

----------------------------------------------------------------------------
(* check_fields, check_field and check_and_post of common/utils.py *)

RangeExceedTotal == "ERROR_RANGE_EXCEED_TOTAL"

ResourceNotFound == "ERROR_RESOURCE_NOT_FOUND_NOR_COMMONDBTM"

(* line 58 *)
api_increment == 50

MaxItems == 120

(* line 64: the answer to GET url?range=a-b. A server that does not know  *)
(* the resource answers ERROR_RESOURCE_NOT_FOUND_NOR_COMMONDBTM; one that *)
(* holds the collection answers the items of positions a to b (counted    *)
(* from 0, both ends included), and ERROR_RANGE_EXCEED_TOTAL when a is    *)
(* past the last item. A page is [error, items].                          *)
get_range(server, a, b) ==
    IF ~server.found THEN [error |-> ResourceNotFound, items |-> <<>>]
    ELSE IF a >= Len(server.items) THEN [error |-> RangeExceedTotal, items |-> <<>>]
    ELSE [error |-> "",
          items |-> SubSeq(server.items, a + 1,
                          IF b + 1 <= Len(server.items) THEN b + 1 ELSE Len(server.items))]

(* next_range that leaves a gap after the range it has asked for *)
next_range_gap(api_range) == api_range + api_increment + 2

(* line 75 *)
next_range(api_range) == api_range + api_increment

(* lines 56-59: the locals of check_fields at entry *)
FreshFields == [api_range |-> 0, more_fields |-> TRUE, glpi_fields_list |-> <<>>, requested |-> <<>>]

(* lines 60-75: one pass of `while more_fields`; requested is the list of *)
(* the ranges asked for so far                                            *)
check_fields_step(server, st) ==
    LET glpi_fields == get_range(server, st.api_range, st.api_range + api_increment)
        asked == [st EXCEPT !.requested = Append(@, <<st.api_range, st.api_range + api_increment>>)]
    IN  IF glpi_fields.error = ResourceNotFound
        THEN [asked EXCEPT !.more_fields = FALSE,
                           !.glpi_fields_list = Append(@, glpi_fields)]
        ELSE IF glpi_fields.error = RangeExceedTotal
        THEN [asked EXCEPT !.more_fields = FALSE]
        ELSE [asked EXCEPT !.glpi_fields_list = Append(@, glpi_fields),
                           !.api_range = next_range(@)]

(* lines 56-76: check_fields against a server that holds the collection *)
RECURSIVE check_fields_loop(_, _)
check_fields_loop(server, st) ==
    IF ~st.more_fields THEN st.glpi_fields_list
    ELSE check_fields_loop(server, check_fields_step(server, st))

check_fields(server) == check_fields_loop(server, FreshFields)

(* the servers of a call of check_fields: the items are numbered *)
FieldServers ==
    {[found |-> TRUE, items |-> [k \in 1..n |-> k]] : n \in 0..MaxItems}
    \cup {[found |-> FALSE, items |-> <<>>]}

InitFields ==
    /\ NoRun
    /\ check_disks_frame = NoCall
    /\ build_command_frame = NoCall
    /\ get_hostname_frame = NoCall
    /\ check_and_post_frame = NoCall
    /\ redfish_main_frame = NoCall
    /\ wrapper_parse_list_frame = NoCall
    /\ reservation_parse_list_frame = NoCall
    /\ \E server \in FieldServers :
            check_fields_frame = [pc |-> "loop", server |-> server, st |-> FreshFields]

(* lines 60-75 *)
CheckFieldsStep ==
    /\ check_fields_frame.pc = "loop"
    /\ check_fields_frame.st.more_fields
    /\ check_fields_frame' =
            [check_fields_frame EXCEPT !.st = check_fields_step(check_fields_frame.server, @)]
    /\ UNCHANGED <<run_vars, check_disks_frame, build_command_frame, get_hostname_frame,
                   check_and_post_frame,
                   redfish_main_frame,
                   wrapper_parse_list_frame,
                   reservation_parse_list_frame>>

(* line 76 *)
CheckFieldsReturn ==
    /\ check_fields_frame.pc = "loop"
    /\ ~check_fields_frame.st.more_fields
    /\ check_fields_frame' = [check_fields_frame EXCEPT !.pc = "returned"]
    /\ UNCHANGED <<run_vars, check_disks_frame, build_command_frame, get_hostname_frame,
                   check_and_post_frame,
                   redfish_main_frame,
                   wrapper_parse_list_frame,
                   reservation_parse_list_frame>>

NextFields == CheckFieldsStep \/ CheckFieldsReturn

(* the loop is sequential code: a pass that can be run is run *)
FairSpecFields == InitFields /\ [][NextFields]_vars /\ WF_vars(NextFields)

(* id is None *)
NoId == 0

(* line 41: all(glpi_field[key] == value for key, value in search_criteria.items()) *)
matches_all(glpi_field, search_criteria) ==
    \A key \in search_criteria.keys : glpi_field[key] = search_criteria[key]

(* matches_all that is content with one equal field *)
matches_one(glpi_field, search_criteria) ==
    \E key \in search_criteria.keys : glpi_field[key] = search_criteria[key]

(* the items of the pages, in the order lines 39-40 read them *)
RECURSIVE page_items(_)
page_items(glpi_fields_list) ==
    IF glpi_fields_list = <<>> THEN <<>>
    ELSE Head(glpi_fields_list).items \o page_items(Tail(glpi_fields_list))

(* check_field that returns the first item with one equal field *)
check_field_one(server, search_criteria) ==
    LET items == page_items(check_fields(server))
    IN  IF \E k \in 1..Len(items) : matches_one(items[k], search_criteria)
        THEN items[CHOOSE k \in 1..Len(items) :
                    /\ matches_one(items[k], search_criteria)
                    /\ \A j \in 1..(k - 1) : ~matches_one(items[j], search_criteria)].id
        ELSE NoId

(* lines 37-43 *)
check_field(server, search_criteria) ==
    LET items == page_items(check_fields(server))
    IN  IF \E k \in 1..Len(items) : matches_all(items[k], search_criteria)
        THEN items[CHOOSE k \in 1..Len(items) :
                    /\ matches_all(items[k], search_criteria)
                    /\ \A j \in 1..(k - 1) : ~matches_all(items[j], search_criteria)].id
        ELSE NoId

(* POST url {"input": glpi_post} on a server that stores the posted       *)
(* fields as they are: the new item, with the next id                     *)
posted_item(server, glpi_post) ==
    [id |-> Len(server.items) + 1,
     name |-> IF "name" \in glpi_post.keys THEN glpi_post.name ELSE "",
     comment |-> IF "comment" \in glpi_post.keys THEN glpi_post.comment ELSE ""]

(* lines 851-858: the request made, the server after it and the id returned *)
create_or_update_glpi_item(server, glpi_post, id) ==
    IF id = NoId
    THEN [request |-> "POST",
          server |-> [server EXCEPT !.items = Append(@, posted_item(server, glpi_post))],
          id |-> posted_item(server, glpi_post).id]
    ELSE [request |-> "PUT", server |-> server, id |-> id]

MaxStored == 2

Names == {"Server", "Dell"}

Comments == {"", "lab"}

(* the items a server holds before the calls, ids in order *)
StoredItems ==
    {[k \in 1..Len(s) |-> [id |-> k, name |-> s[k][1], comment |-> s[k][2]]] :
        s \in SeqsOf(Names \X Comments, 0, MaxStored)}

(* the post_information of a call: a dict of the fields name and         *)
(* comment, keys are the keys it has                                      *)
PostInformation ==
    {[keys |-> keys, name |-> name, comment |-> comment] :
        keys \in SUBSET {"name", "comment"}, name \in Names, comment \in Comments}

(* given: the items before the first call; before: the items before the  *)
(* call that is running; requests: the requests of the call that is       *)
(* running other than GET; returned: the ids the calls have returned      *)
InitPost ==
    /\ NoRun
    /\ check_disks_frame = NoCall
    /\ build_command_frame = NoCall
    /\ get_hostname_frame = NoCall
    /\ check_fields_frame = NoCall
    /\ redfish_main_frame = NoCall
    /\ wrapper_parse_list_frame = NoCall
    /\ reservation_parse_list_frame = NoCall
    /\ \E items \in StoredItems : \E post_information \in PostInformation :
            check_and_post_frame =
                [pc |-> "check", server |-> [found |-> TRUE, items |-> items],
                 given |-> items, before |-> items, post_information |-> post_information,
                 id |-> NoId, requests |-> <<>>, returned |-> <<>>]

(* line 110 *)
CheckField ==
    /\ check_and_post_frame.pc = "check"
    /\ check_and_post_frame' =
            [check_and_post_frame EXCEPT
                !.id = check_field(check_and_post_frame.server,
                                   check_and_post_frame.post_information),
                !.pc = "post"]
    /\ UNCHANGED <<run_vars, check_disks_frame, build_command_frame, get_hostname_frame,
                   check_fields_frame,
                   redfish_main_frame,
                   wrapper_parse_list_frame,
                   reservation_parse_list_frame>>

(* lines 112-115 *)
CreateOrUpdate ==
    /\ check_and_post_frame.pc = "post"
    /\ LET f == check_and_post_frame
           done == create_or_update_glpi_item(f.server, f.post_information, f.id)
       IN  check_and_post_frame' =
                [f EXCEPT !.server = done.server,
                          !.id = done.id,
                          !.requests = Append(@, done.request),
                          !.returned = Append(@, done.id),
                          !.pc = "returned"]
    /\ UNCHANGED <<run_vars, check_disks_frame, build_command_frame, get_hostname_frame,
                   check_fields_frame,
                   redfish_main_frame,
                   wrapper_parse_list_frame,
                   reservation_parse_list_frame>>

(* the caller calls check_and_post again with the same post_information *)
CallAgain ==
    /\ check_and_post_frame.pc = "returned"
    /\ Len(check_and_post_frame.returned) < 2
    /\ check_and_post_frame' =
            [check_and_post_frame EXCEPT
                !.before = check_and_post_frame.server.items,
                !.id = NoId, !.requests = <<>>, !.pc = "check"]
    /\ UNCHANGED <<run_vars, check_disks_frame, build_command_frame, get_hostname_frame,
                   check_fields_frame,
                   redfish_main_frame,
                   wrapper_parse_list_frame,
                   reservation_parse_list_frame>>

NextPost == CheckField \/ CreateOrUpdate \/ CallAgain

SpecPost == InitPost /\ [][NextPost]_vars

----------------------------------------------------------------------------
(* The import of several machines: main and post_to_glpi of              *)
(* population/create_glpi_computer_redfish.py, and parse_list of          *)
(* population/create_glpi_computer_redfish_wrapper.py                     *)

MaxMachines == 2

BmcIps == {"10.0.0.1", "10.0.0.2"}

Serials == {"S1", "S2"}

(* What happens to a machine in the try block of main (lines 211-264):    *)
(* "ok": post_to_glpi reaches the PUT or POST of the computer;            *)
(* "error": a call raises an exception, e.g. the BMC does not answer;     *)
(* "exit": GLPI gives no session token and SessionHandler calls exit()    *)
(* (common/sessionhandler.py, lines 46-53), which raises SystemExit       *)
Outcomes == {"ok", "error", "exit"}

(* machines: the list parse_machine_flags returns, with what Redfish      *)
(* reports for the machine (SerialNumber, UUID)                           *)
Machines ==
    {[ipmi_ip |-> ip, serial |-> s, uuid |-> "U1", outcome |-> o] :
        ip \in BmcIps, s \in Serials, o \in Outcomes}

GlpiComputer(id, serial, uuid) == [id |-> id, serial |-> serial, uuid |-> uuid]

(* the computers GLPI holds before the run, line 709 *)
GlpiComputers ==
    {<<>>,
     <<GlpiComputer(1, "S1", "U1")>>,
     <<GlpiComputer(1, "S1", "U2")>>,
     <<GlpiComputer(1, "S1", "U2"), GlpiComputer(2, "S1", "U1")>>,
     <<GlpiComputer(1, "S2", "U1"), GlpiComputer(2, "S1", "U1")>>}

(* lines 712-721: the id of the first computer with this serial and uuid, *)
(* NoId when the loop ends without a break                                *)
first_match(glpi_fields_list, serial_number, uuid) ==
    IF \E i \in 1..Len(glpi_fields_list) :
            glpi_fields_list[i].serial = serial_number /\ glpi_fields_list[i].uuid = uuid
    THEN glpi_fields_list[CHOOSE i \in 1..Len(glpi_fields_list) :
            /\ glpi_fields_list[i].serial = serial_number /\ glpi_fields_list[i].uuid = uuid
            /\ \A j \in 1..(i - 1) :
                    ~(glpi_fields_list[j].serial = serial_number
                      /\ glpi_fields_list[j].uuid = uuid)].id
    ELSE NoId

(* post_to_glpi, lines 709-746: the global PUT after the call, the        *)
(* request sent for the computer (a PUT on COMPUTER_URL + str(None) has   *)
(* the target NoId) and the computers GLPI holds after it                 *)
post_to_glpi(glpi, PUT, machine) ==
    LET COMPUTER_ID == first_match(glpi, machine.serial, machine.uuid)
        put == PUT \/ COMPUTER_ID # NoId
    IN  IF put
        THEN [PUT |-> put, method |-> "PUT", target |-> COMPUTER_ID, glpi |-> glpi]
        ELSE [PUT |-> put, method |-> "POST", target |-> Len(glpi) + 1,
              glpi |-> Append(glpi, GlpiComputer(Len(glpi) + 1, machine.serial, machine.uuid))]

(* put: args.put; PUT: the global of that name; given: the computers of   *)
(* GLPI before the run; requests: the PUT and POST requests for           *)
(* computers, with the position of the machine they were sent for;        *)
(* attempted: the machines the loop has started on; tables: the calls of  *)
(* print_error_table; no_errors: it printed "No errors detected!"         *)
InitMain ==
    /\ \E ms \in SeqsOf(Machines, 0, MaxMachines) : \E glpi \in GlpiComputers :
       \E put \in BOOLEAN :
            redfish_main_frame =
                [pc |-> "loop", machines |-> ms, put |-> put, PUT |-> put, given |-> glpi,
                 glpi |-> glpi, k |-> 1, attempted |-> <<>>, requests |-> <<>>,
                 error_messages |-> {}, tables |-> 0, no_errors |-> FALSE]
    /\ wrapper_parse_list_frame = NoCall

(* main, lines 209-269: one pass of `for machine in machines` *)
ImportMachine ==
    /\ redfish_main_frame.pc = "loop"
    /\ redfish_main_frame.k <= Len(redfish_main_frame.machines)
    /\ LET f == redfish_main_frame
           machine == f.machines[f.k]
           started == [f EXCEPT !.attempted = Append(@, f.k), !.k = @ + 1]
           posted == post_to_glpi(f.glpi, f.PUT, machine)
       IN  redfish_main_frame' =
                IF machine.outcome = "exit" THEN [started EXCEPT !.pc = "exited"]
                ELSE IF machine.outcome = "error"
                THEN [started EXCEPT !.error_messages = @ \cup {machine.ipmi_ip}]
                ELSE [started EXCEPT
                        !.PUT = posted.PUT,
                        !.glpi = posted.glpi,
                        !.requests = Append(@, [machine |-> f.k, method |-> posted.method,
                                                target |-> posted.target])]
    /\ UNCHANGED <<run_vars, check_disks_frame, build_command_frame, get_hostname_frame,
                   check_fields_frame, check_and_post_frame, wrapper_parse_list_frame,
                   reservation_parse_list_frame>>

(* main, line 271: print_error_table after the loop; the table is the one *)
(* of the function of this name in the wrapper, lines 319-344             *)
PrintErrorTable ==
    /\ redfish_main_frame.pc = "loop"
    /\ redfish_main_frame.k > Len(redfish_main_frame.machines)
    /\ redfish_main_frame' =
            [redfish_main_frame EXCEPT
                !.tables = @ + 1,
                !.no_errors = (redfish_main_frame.error_messages = {}),
                !.pc = "done"]
    /\ UNCHANGED <<run_vars, check_disks_frame, build_command_frame, get_hostname_frame,
                   check_fields_frame, check_and_post_frame, wrapper_parse_list_frame,
                   reservation_parse_list_frame>>

(* What the wrapper sees of the script it runs for a line (lines 205-212):*)
(* "ok": exit status 0 after an import that worked;                       *)
(* "caught": the import failed inside the try block of the script's main, *)
(* which prints the traceback and ends normally, exit status 0;           *)
(* "status": the script ends with a status other than 0 and its output    *)
(* ends with a line of text;                                              *)
(* "silent": the script ends with a status other than 0 and no output     *)
ScriptOutcomes == {"ok", "caught", "status", "silent"}

(* the lines of the machine file: a comment, a line that does not have    *)
(* five fields, or a machine                                              *)
MachineFileLines ==
    {[kind |-> "comment", ipmi_ip |-> "", outcome |-> "ok"],
     [kind |-> "short", ipmi_ip |-> "", outcome |-> "ok"]}
    \cup {[kind |-> "machine", ipmi_ip |-> ip, outcome |-> o] :
            ip \in BmcIps, o \in ScriptOutcomes}

InitWrapper ==
    /\ redfish_main_frame = NoCall
    /\ \E ls \in SeqsOf(MachineFileLines, 0, MaxMachines) :
            wrapper_parse_list_frame =
                [pc |-> "loop", machine_list |-> ls, k |-> 1, attempted |-> <<>>,
                 error_messages |-> {}, tables |-> 0, no_errors |-> FALSE, error |-> ""]

(* parse_list of the wrapper, lines 182-216: one pass of                  *)
(* `for line in machine_list`                                             *)
CallScript ==
    /\ wrapper_parse_list_frame.pc = "loop"
    /\ wrapper_parse_list_frame.k <= Len(wrapper_parse_list_frame.machine_list)
    /\ LET f == wrapper_parse_list_frame
           line == f.machine_list[f.k]
           next == [f EXCEPT !.k = @ + 1]
           started == [next EXCEPT !.attempted = Append(@, f.k)]
       IN  wrapper_parse_list_frame' =
                IF line.kind # "machine" THEN next
                ELSE IF line.outcome = "status"
                THEN [started EXCEPT !.error_messages = @ \cup {line.ipmi_ip}]
                ELSE IF line.outcome = "silent"
                THEN [started EXCEPT !.pc = "raised", !.error = "IndexError"]
                ELSE started
    /\ UNCHANGED <<run_vars, check_disks_frame, build_command_frame, get_hostname_frame,
                   check_fields_frame, check_and_post_frame, redfish_main_frame,
                   reservation_parse_list_frame>>

(* parse_list of the wrapper, line 217, and print_error_table, lines 319-344 *)
WrapperPrintErrorTable ==
    /\ wrapper_parse_list_frame.pc = "loop"
    /\ wrapper_parse_list_frame.k > Len(wrapper_parse_list_frame.machine_list)
    /\ wrapper_parse_list_frame' =
            [wrapper_parse_list_frame EXCEPT
                !.tables = @ + 1,
                !.no_errors = (wrapper_parse_list_frame.error_messages = {}),
                !.pc = "done"]
    /\ UNCHANGED <<run_vars, check_disks_frame, build_command_frame, get_hostname_frame,
                   check_fields_frame, check_and_post_frame, redfish_main_frame,
                   reservation_parse_list_frame>>

(* a run of the script on a list of machines, or a run of the wrapper *)
InitImport ==
    /\ NoRun
    /\ check_disks_frame = NoCall
    /\ build_command_frame = NoCall
    /\ get_hostname_frame = NoCall
    /\ check_fields_frame = NoCall
    /\ check_and_post_frame = NoCall
    /\ reservation_parse_list_frame = NoCall
    /\ (InitMain \/ InitWrapper)

NextImport == ImportMachine \/ PrintErrorTable \/ CallScript \/ WrapperPrintErrorTable

SpecImport == InitImport /\ [][NextImport]_vars

----------------------------------------------------------------------------
(* parse_list of reservation/create_glpi_reservation.py *)

MaxServers == 2

(* a field of the yaml file: the key is absent (dict.get gives None), or  *)
(* it is there with the value null, or it is there with a value           *)
Absent == [key |-> FALSE, value |-> PyNone]

Null == [key |-> TRUE, value |-> PyNone]

Given(value) == [key |-> TRUE, value |-> value]

(* the top level of the file, lines 79-81 *)
ReservationFiles ==
    {[username |-> u, start |-> s, end |-> e] :
        u \in {Absent, Null, Given("global_user")},
        s \in {Absent, Given("global_start")},
        e \in {Absent, Given("global_end")}}

(* reservations["servers"][server]: None, or a dict, lines 87-102 *)
ServerEntries ==
    {[none |-> TRUE, username |-> Absent, start |-> Absent, end |-> Absent]}
    \cup {[none |-> FALSE, username |-> u, start |-> s, end |-> e] :
            u \in {Absent, Null, Given("server_user")},
            s \in {Absent, Given("server_start")},
            e \in {Absent, Given("server_end")}}

(* lines 88-102: the local after the server's entry has been read *)
override(local, entry, field) ==
    IF ~entry.none /\ entry[field].key /\ entry[field].value # PyNone
    THEN entry[field].value
    ELSE local

(* username, start, end: the locals of these names at the top of the loop; *)
(* attempts: the calls of create_reservations                             *)
InitReservation ==
    /\ NoRun
    /\ check_disks_frame = NoCall
    /\ build_command_frame = NoCall
    /\ get_hostname_frame = NoCall
    /\ check_fields_frame = NoCall
    /\ check_and_post_frame = NoCall
    /\ redfish_main_frame = NoCall
    /\ wrapper_parse_list_frame = NoCall
    /\ \E file \in ReservationFiles : \E servers \in SeqsOf(ServerEntries, 0, MaxServers) :
            reservation_parse_list_frame =
                [pc |-> "loop", reservations |-> file, servers |-> servers, k |-> 1,
                 username |-> file.username.value, start |-> file.start.value,
                 end |-> file.end.value, attempts |-> <<>>, error |-> ""]

(* lines 85-138: one pass of `for server in reservations["servers"]` *)
ReserveServer ==
    /\ reservation_parse_list_frame.pc = "loop"
    /\ reservation_parse_list_frame.k <= Len(reservation_parse_list_frame.servers)
    /\ LET f == reservation_parse_list_frame
           entry == f.servers[f.k]
           username == override(f.username, entry, "username")
           start == override(f.start, entry, "start")
           end == override(f.end, entry, "end")
           called == [f EXCEPT !.attempts = Append(@, [server |-> f.k, username |-> username,
                                                       start |-> start, end |-> end])]
       IN  reservation_parse_list_frame' =
                IF username = PyNone \/ start = PyNone \/ end = PyNone
                THEN [f EXCEPT !.pc = "raised", !.error = "KeyError: You need to specify"]
                ELSE IF ~f.reservations.username.key
                THEN [called EXCEPT !.pc = "raised", !.error = "KeyError: 'username'"]
                ELSE IF ~f.reservations.start.key
                THEN [called EXCEPT !.pc = "raised", !.error = "KeyError: 'start'"]
                ELSE IF ~f.reservations.end.key
                THEN [called EXCEPT !.pc = "raised", !.error = "KeyError: 'end'"]
                ELSE [called EXCEPT !.username = f.reservations.username.value,
                                    !.start = f.reservations.start.value,
                                    !.end = f.reservations.end.value,
                                    !.k = @ + 1]
    /\ UNCHANGED <<run_vars, check_disks_frame, build_command_frame, get_hostname_frame,
                   check_fields_frame, check_and_post_frame, redfish_main_frame,
                   wrapper_parse_list_frame>>

(* line 139 *)
ReservationErrorTable ==
    /\ reservation_parse_list_frame.pc = "loop"
    /\ reservation_parse_list_frame.k > Len(reservation_parse_list_frame.servers)
    /\ reservation_parse_list_frame' = [reservation_parse_list_frame EXCEPT !.pc = "done"]
    /\ UNCHANGED <<run_vars, check_disks_frame, build_command_frame, get_hostname_frame,
                   check_fields_frame, check_and_post_frame, redfish_main_frame,
                   wrapper_parse_list_frame>>

NextReservation == ReserveServer \/ ReservationErrorTable

SpecReservation == InitReservation /\ [][NextReservation]_vars

----------------------------------------------------------------------------
(* Properties *)

Reqs == 1..Len(requirements)

Candidates(r) == {available[r][k].id : k \in 1..Len(available[r])}

Assigned == DOMAIN final_choices

(* the computer passes the hardware checks of the requirement as written  *)
(* in the requirements file                                               *)
PassesHardChecks(req, c) ==
    /\ Len(computers[c].processors) >= req.cpu
    /\ SumSeq(computers[c].processors) >= req.cores
    /\ SumSeq(computers[c].memory) >= req.ram
    /\ ("gpu" \in req.keys =>
            \E k \in 1..Len(computers[c].graphics) : IsSubstring(req.gpu, computers[c].graphics[k]))
    /\ ("nic" \in req.keys =>
            \E k \in 1..Len(computers[c].nics) : IsSubstring(req.nic, computers[c].nics[k]))
    /\ ("disks" \in req.keys => check_disks(c, disks, SortByStorage(req.disks)).ok)

WellFormed(req) == {"cpu", "cores", "ram"} \subseteq req.keys

(* C1: no computer id is the chosen match of more than one requirement.   *)
C1_NoDoubleBooking ==
    \A r1 \in Assigned : \A r2 \in Assigned :
        r1 # r2 => final_choices[r1] # final_choices[r2]

(* a finished run in which three requirements competed for two computers  *)
(* that every one of them could use                                       *)
C1_Witness ==
    /\ pc = "done"
    /\ Cardinality(Assigned) = 2
    /\ Len(requirements) = 3
    /\ \A r \in Reqs : Cardinality(Candidates(r)) = 2

(* C2: a computer that fails a hard check of requirement R (CPU count,    *)
(* core count, memory, or a requested GPU, NIC or disk check) is not in   *)
(* available[R].                                                          *)
C2_FailedCheckExcluded ==
    \A r \in Reqs : \A c \in Candidates(r) :
        WellFormed(yaml_file[r]) => PassesHardChecks(yaml_file[r], c)

(* C3: no reservation of a candidate computer shares an instant with the  *)
(* requirement's window.                                                  *)
C3_NoOverlap ==
    \A r \in Reqs : \A c \in Candidates(r) :
        \A k \in reservations_of(c, reservations) :
            {"start", "end"} \subseteq yaml_file[r].keys =>
                ~(reservations[k].Begins <= yaml_file[r].end
                  /\ yaml_file[r].start <= reservations[k].Ends)

Contains(reservation, req) ==
    /\ {"start", "end"} \subseteq req.keys
    /\ reservation.Begins <= req.start
    /\ req.end <= reservation.Ends

(* C4: a computer with a reservation that fully contains the window of R  *)
(* is not a candidate of R.                                               *)
C4_ContainingReservationExcludes ==
    \A r \in Reqs : \A c \in 1..Len(computers) :
        (\E k \in reservations_of(c, reservations) : Contains(reservations[k], yaml_file[r]))
            => c \notin Candidates(r)

(* a finished run with a computer that passes every hardware check of the *)
(* requirement and has a reservation containing its window, next to a     *)
(* computer that became a candidate                                       *)
C4_Witness ==
    /\ pc = "done"
    /\ \E r \in Reqs : \E c \in 1..Len(computers) :
        /\ PassesHardChecks(yaml_file[r], c)
        /\ computer_reservable(computers[c])
        /\ \E k \in reservations_of(c, reservations) : Contains(reservations[k], yaml_file[r])
        /\ Candidates(r) # {}

(* C5: at the end of a run no requirement is unassigned while one of its  *)
(* candidates is assigned to no requirement.                              *)
C5_AssignedWherePossible ==
    pc = "done" =>
        \A r \in Reqs \ Assigned : \A c \in Candidates(r) :
            \E q \in Assigned : final_choices[q] = c

(* the weight the spec defines for (requirement, computer): the sum of    *)
(* the three ratios available / required                                  *)
RatioSum(req, c) ==
    RAdd(RAdd(Ratio(Len(computers[c].processors), req.cpu),
              Ratio(SumSeq(computers[c].processors), req.cores)),
         Ratio(SumSeq(computers[c].memory), req.ram))

SameRatio(a, b) == a.num * b.den = b.num * a.den

(* C6: in a finished run of one requirement that has a candidate, every   *)
(* candidate carries the sum of its three ratios as total_weight and the  *)
(* recommended computer is a candidate of minimum total_weight.           *)
C6_SingleRequirementMinWeight ==
    (pc = "done" /\ Len(requirements) = 1 /\ Candidates(1) # {}) =>
        /\ 1 \in Assigned
        /\ final_choices[1] \in Candidates(1)
        /\ \A c \in Candidates(1) :
            /\ SameRatio(WeightOf(available, 1, c), RatioSum(yaml_file[1], c))
            /\ ~RLess(RatioSum(yaml_file[1], c), RatioSum(yaml_file[1], final_choices[1]))

(* the scenario of the spec: the candidate of weight 5 comes first in the *)
(* inventory, the candidate of weight 3 second, and the second is chosen  *)
C6_Witness ==
    /\ pc = "done"
    /\ Len(requirements) = 1
    /\ Candidates(1) = {1, 2}
    /\ SameRatio(WeightOf(available, 1, 1), Ratio(5, 1))
    /\ SameRatio(WeightOf(available, 1, 2), Ratio(3, 1))
    /\ final_choices[1] = 2

(* the requirements r1 and r2 are the only ones with candidates, and each *)
(* has the computer c as its only candidate                               *)
ShareOnlyCandidate(r1, r2, c) ==
    /\ r1 # r2
    /\ Candidates(r1) = {c}
    /\ Candidates(r2) = {c}
    /\ \A r \in Reqs \ {r1, r2} : Candidates(r) = {}

C8_ReportComplete ==
    /\ pc = "print" => ENABLED PrintFinalDecision
    /\ pc = "done" =>
        /\ error = ""
        /\ Len(report) = Len(requirements)
        /\ \A r \in Reqs :
            /\ report[r].requirement = r
            /\ report[r].computer_id = IF r \in Assigned THEN final_choices[r] ELSE 0
        /\ fulfilled \in {"true", "false"}
        /\ (fulfilled = "true") <=> (\A r \in Reqs : r \in Assigned)

(* a report with a chosen computer for the first requirement and None for *)
(* the last                                                               *)
C8_Witness ==
    /\ pc = "done"
    /\ Len(requirements) >= 2
    /\ report[1].computer_id # 0
    /\ report[Len(requirements)].computer_id = 0
    /\ fulfilled = "false"

(* C9: with the --all flag no ranking is performed: the run gives no      *)
(* requirement a ranked recommendation.                                   *)
C9_AllFlagBypassesRanking ==
    all_flag => final_choices = NoChoices

(* C10: when a requirement entry lacks cpu, cores or ram, the run does    *)
(* not get as far as ranking.                                             *)
C10_MalformedIsFatalBeforeRanking ==
    (\E r \in 1..Len(yaml_file) : ~WellFormed(yaml_file[r])) =>
        pc \in {"eval", "crashed"}

(* a computer with a processor or memory record that lacks its field      *)
Broken(c) == lacks_field(computers[c].processors) \/ lacks_field(computers[c].memory)

Complete(req) == FullKeys \subseteq req.keys

(* C11: with complete requirements, a computer whose processor or memory  *)
(* record lacks its field does not abort the run: it is left out of the   *)
(* candidates and the run goes on to the report.                          *)
C11_SubRecordFailureIsNotFatal ==
    (\A r \in 1..Len(yaml_file) : Complete(yaml_file[r])) =>
        /\ pc # "crashed"
        /\ \A r \in Reqs : \A c \in Candidates(r) : ~Broken(c)

(* C12: a requirement that has every key but start and end does not abort *)
(* the run, whatever reservations the computers have.                     *)
C12_WindowIsOptional ==
    (/\ \A r \in 1..Len(yaml_file) : (FullKeys \ {"start", "end"}) \subseteq yaml_file[r].keys
     /\ \A c \in 1..Len(computers) : ~Broken(c))
        => pc # "crashed"

C14_NoDisksNoDiskCheck ==
    /\ error # "UnboundLocalError"
    /\ pc \notin {"eval", "crashed"} =>
        \A r \in Reqs : \A c \in 1..Len(computers) :
            (/\ (FullKeys \ {"disks"}) \subseteq yaml_file[r].keys
             /\ "disks" \notin yaml_file[r].keys
             /\ computer_reservable(computers[c])
             /\ ~Broken(c)
             /\ PassesHardChecks(yaml_file[r], c)
             /\ reservation_free(yaml_file[r], c, reservations))
                => c \in Candidates(r)

(* the requirement-disk can be met by the disk: its minimum size is at    *)
(* most the disk's size and its type, if it has one, is in the disk name  *)
Fits(req_disk, disk) ==
    /\ req_disk.storage <= disk.totalsize
    /\ (req_disk.has_type => IsSubstring(req_disk.disk_type, disk.name))

(* one step of check_disks is a first-fit step: a disk of the computer    *)
(* removes the first pending requirement-disk it fits, any other disk     *)
(* removes nothing                                                        *)
FirstFitStep ==
    LET f == check_disks_frame
        disk == f.disks[f.k]
        pending == f.disks_req
        fit == {i \in 1..Len(pending) :
                    /\ disk.itemtype = "Computer"
                    /\ disk.items_id = f.computer_id
                    /\ Fits(pending[i], disk)}
    IN  /\ check_disks_frame'.k = f.k + 1
        /\ IF fit = {}
           THEN check_disks_frame'.disks_req = pending
           ELSE \E i \in fit :
                    /\ \A j \in fit : i <= j
                    /\ check_disks_frame'.disks_req = RemoveAt(pending, i)

(* the requirement-disks of 100 and 500 against the disks 600, 150 of the *)
(* computer, in this order                                                *)
DisksExample ==
    /\ check_disks_frame.given \in {<<ReqDisk(100), ReqDisk(500)>>, <<ReqDisk(500), ReqDisk(100)>>}
    /\ Len(check_disks_frame.disks) = 2
    /\ \A k \in 1..2 :
        /\ check_disks_frame.disks[k].itemtype = "Computer"
        /\ check_disks_frame.disks[k].items_id = check_disks_frame.computer_id
    /\ check_disks_frame.disks[1].totalsize = 600
    /\ check_disks_frame.disks[2].totalsize = 150

(* what check_disks has reached: the pending list is in ascending order   *)
(* of minimum size, the result is True exactly when nothing is pending,   *)
(* and in the example the disk of 600 has consumed the request of 100,    *)
(* the request of 500 stays pending and the check fails                   *)
DisksOutcome ==
    LET f == check_disks_frame
    IN  /\ f.pc \in {"loop", "returned"} =>
                \A i \in 1..(Len(f.disks_req) - 1) :
                    f.disks_req[i].storage <= f.disks_req[i + 1].storage
        /\ f.pc = "returned" => (f.result = PyTrue <=> f.disks_req = <<>>)
        /\ f.pc = "returned" => f.k = Len(f.disks) + 1
        /\ (DisksExample /\ f.pc = "loop" /\ f.k >= 2) => f.disks_req = <<ReqDisk(500)>>
        /\ (DisksExample /\ f.pc = "returned") => f.result = PyFalse

(* C15: check_disks is first-fit in the given order: the disks are        *)
(* processed in list order, each disk of the computer removes the first   *)
(* pending requirement-disk (ascending minimum size) it fits, and the     *)
(* check passes iff every requirement-disk was removed; requirement-disks *)
(* [100, 500] against disks [600, 150] fail.                              *)
C15_FirstFitInGivenOrder ==
    /\ [][CheckDisksStep => FirstFitStep]_vars
    /\ []DisksOutcome

(* the example has returned False *)
C15_Witness ==
    /\ DisksExample
    /\ check_disks_frame.pc = "returned"
    /\ check_disks_frame.result = PyFalse
    /\ check_disks_frame.disks_req = <<ReqDisk(500)>>

(* The round that has just been run: its number, the requirements that    *)
(* were in sorted_available when it started (the pick is deleted only at  *)
(* the end of its round), and their sorted lists, which no round changes. *)
RoundRan == pc \in {"round", "print"} /\ index >= 1

last_round == index - 1

scanned == (DOMAIN sorted_available) \cup ({pick} \ {0})

choices(r) == sorted_requirement(available[r])

(* the sorted list of r has an entry at the index of the round *)
HasEntry(r) == Len(choices(r)) > last_round

(* the weight the round compares for r: the weight at the index of the    *)
(* round when r has an entry there, its lowest weight when it has none    *)
compared_weight(r) ==
    WeightOf(available, r, choices(r)[IF HasEntry(r) THEN last_round + 1 ELSE 1])

(* the requirements the round compares: all of them when every list has   *)
(* an entry at the index, the ones without such an entry otherwise        *)
compared ==
    IF \A r \in scanned : HasEntry(r) THEN scanned
    ELSE {r \in scanned : ~HasEntry(r)}

(* C17: in every round, no requirement that comes earlier in the scan     *)
(* than the winner ties with the winner on the weight being compared.     *)
C17_FirstEncounteredWinsTies ==
    (RoundRan /\ pick \in compared) =>
        \A r \in compared :
            r < pick => ~SameRatio(compared_weight(r), compared_weight(pick))

(* C20: a round is limited only when some requirement it scanned has no   *)
(* entry at the index of the round.                                       *)
C20_InRangeIsNotLimited ==
    (RoundRan /\ limited) => \E r \in scanned : ~HasEntry(r)

(* the option flags of the wrapper, in the order of the command line *)
FlagOrder ==
    <<Str("-n"), Str("-s"), Str("-c"), Str("-v"), Str("-p"), Str("-e"), Str("-o"),
      Str("-U"), Str("-P"), Str("-S"), Str("-C")>>

IsFlag(token) == \E k \in 1..Len(FlagOrder) : FlagOrder[k] = token

SunbirdComplete ==
    /\ IsSet(build_command_frame.sunbird_username)
    /\ IsSet(build_command_frame.sunbird_password)
    /\ IsSet(build_command_frame.sunbird_url)

(* the option of this flag is set in the arguments of the call *)
FlagSet(flag) ==
    LET f == build_command_frame
    IN  CASE flag.text = "-n" -> IsSet(f.no_dns)
          [] flag.text = "-s" -> f.sku
          [] flag.text = "-c" -> IsSet(f.switch_config)
          [] flag.text = "-v" -> f.no_verify
          [] flag.text = "-p" -> f.put
          [] flag.text = "-e" -> f.experiment
          [] flag.text = "-o" -> f.overwrite
          [] flag.text \in {"-U", "-P", "-S"} -> SunbirdComplete
          [] flag.text = "-C" -> IsSet(f.sunbird_config)

(* the value that follows the flag, for the flags that take one *)
FlagValues ==
    LET f == build_command_frame
    IN  [n |-> f.no_dns, c |-> f.switch_config, U |-> f.sunbird_username,
         P |-> f.sunbird_password, S |-> f.sunbird_url, C |-> f.sunbird_config]

ValueFlags ==
    {<<Str("-n"), FlagValues.n>>, <<Str("-c"), FlagValues.c>>, <<Str("-U"), FlagValues.U>>,
     <<Str("-P"), FlagValues.P>>, <<Str("-S"), FlagValues.S>>, <<Str("-C"), FlagValues.C>>}

(* the field without the whitespace around it *)
Stripped(field) == Str(field.text)

SkuOptionSet ==
    \/ get_hostname_frame.sku = [type |-> "bool", value |-> "True"]
    \/ (get_hostname_frame.sku.type = "str" /\ get_hostname_frame.sku.value # "")

(* C19: get_hostname returns the DNS name when the reverse lookup gives   *)
(* one; when the lookup fails (socket.herror) it returns the record's SKU *)
(* if the sku option is set and the record has a SKU, and the record's    *)
(* SerialNumber otherwise.                                                *)
C19_HostnameFallback ==
    LET f == get_hostname_frame
    IN  f.pc \in {"returned", "raised"} =>
            /\ f.gethostbyaddr.status = "ok" =>
                    (f.pc = "returned" /\ f.hostname = f.gethostbyaddr.name)
            /\ (f.gethostbyaddr.status = "herror" /\ SkuOptionSet
                    /\ "SKU" \in f.system_json.keys) =>
                    (f.pc = "returned" /\ f.hostname = f.system_json.SKU)
            /\ (f.gethostbyaddr.status = "herror"
                    /\ ~(SkuOptionSet /\ "SKU" \in f.system_json.keys)
                    /\ "SerialNumber" \in f.system_json.keys) =>
                    (f.pc = "returned" /\ f.hostname = f.system_json.SerialNumber)

(* the lookup failed, the option is not set, the record has both a SKU    *)
(* and a SerialNumber, and the SerialNumber was returned                  *)
C19_Witness ==
    /\ get_hostname_frame.pc = "returned"
    /\ get_hostname_frame.gethostbyaddr.status = "herror"
    /\ ~SkuOptionSet
    /\ {"SKU", "SerialNumber"} \subseteq get_hostname_frame.system_json.keys
    /\ get_hostname_frame.system_json.SKU = "XYZ456"
    /\ get_hostname_frame.hostname = "SN123"

(* the last round gave its pick a computer: the pick has left             *)
(* sorted_available                                                       *)
assigned_in_round == pick # 0 /\ pick \notin DOMAIN sorted_available

(* taken_machines when the last round started *)
taken_before ==
    IF assigned_in_round THEN SubSeq(taken_machines, 1, Len(taken_machines) - 1)
    ELSE taken_machines

(* the candidates of r that no earlier round has taken *)
remaining(r) ==
    {choices(r)[k] : k \in {j \in 1..Len(choices(r)) :
                                \A t \in 1..Len(taken_before) : taken_before[t] # choices(r)[j]}}

(* the requirements of the last round whose list has no entry at its index *)
limited_requirements == {r \in scanned : ~HasEntry(r)}

(* C21: in a round with a limited requirement that still has a candidate  *)
(* left, the pick is a limited requirement and one of its remaining       *)
(* candidates has the lowest weight among the remaining candidates of all *)
(* limited requirements.                                                  *)
C21_LimitedPickIsMinOfRemaining ==
    (RoundRan /\ \E r \in limited_requirements : remaining(r) # {}) =>
        /\ pick \in limited_requirements
        /\ \E p \in remaining(pick) :
                \A r \in limited_requirements : \A c \in remaining(r) :
                    ~RLess(WeightOf(available, r, c), WeightOf(available, pick, p))

C23_DiskListUnchanged ==
    \A r \in Reqs :
        SortByStorage(requirements[r].disks) = SortByStorage(yaml_file[r].disks)

(* the disks of the call that belong to the computer *)
own_disks ==
    {k \in 1..Len(check_disks_frame.disks) :
        /\ check_disks_frame.disks[k].itemtype = "Computer"
        /\ check_disks_frame.disks[k].items_id = check_disks_frame.computer_id}

(* no requirement-disk of the call names a disk_type *)
untyped_request ==
    \A i \in 1..Len(check_disks_frame.given) : ~check_disks_frame.given[i].has_type

(* the disks of the call are in ascending order of size *)
ascending_disks ==
    \A k \in 1..(Len(check_disks_frame.disks) - 1) :
        check_disks_frame.disks[k].totalsize <= check_disks_frame.disks[k + 1].totalsize

(* every requirement-disk can be given a disk of the computer of at least *)
(* its minimum size, no disk being given twice                            *)
has_assignment ==
    \E g \in [1..Len(check_disks_frame.given) -> own_disks] :
        /\ \A i \in DOMAIN g : \A j \in DOMAIN g : i # j => g[i] # g[j]
        /\ \A i \in DOMAIN g :
                check_disks_frame.disks[g[i]].totalsize >= check_disks_frame.given[i].storage

(* C24: when no requirement-disk names a disk_type and the disks come in  *)
(* ascending size, check_disks on the requirement's list as loaded        *)
(* returns True if and only if the requirement-disks can be assigned to   *)
(* distinct disks of the computer, each of at least the minimum size.     *)
C24_GreedyIsComplete ==
    (check_disks_frame.pc = "returned" /\ untyped_request /\ ascending_disks) =>
        (check_disks_frame.result = PyTrue <=> has_assignment)

(* a call with two requirement-disks given largest first, one of them of  *)
(* the exact size of the smaller of the computer's two disks, that        *)
(* returned True                                                          *)
C24_Witness ==
    /\ check_disks_frame.pc = "returned"
    /\ untyped_request
    /\ ascending_disks
    /\ check_disks_frame.given = <<ReqDisk(500), ReqDisk(150)>>
    /\ Cardinality(own_disks) = 2
    /\ check_disks_frame.disks[1].totalsize = 150
    /\ check_disks_frame.disks[2].totalsize = 600
    /\ check_disks_frame.result = PyTrue

(* the item has every key of the dict with the value of the dict *)
HasAll(item, information) ==
    /\ ("name" \in information.keys => item.name = information.name)
    /\ ("comment" \in information.keys => item.comment = information.comment)

(* C26: check_and_post is check-then-create. When the server held an item *)
(* equal to post_information on every key, the call issues no POST,       *)
(* returns the id of such an item and leaves the items as they were;      *)
(* otherwise it issues exactly one POST and returns the id of the item    *)
(* this created. Two consecutive calls with the same post_information     *)
(* return the same id and create at most one item.                        *)
C26_CheckThenCreate ==
    LET f == check_and_post_frame
    IN  /\ f.pc = "returned" =>
            IF \E k \in 1..Len(f.before) : HasAll(f.before[k], f.post_information)
            THEN /\ \A k \in 1..Len(f.requests) : f.requests[k] # "POST"
                 /\ \E k \in 1..Len(f.before) :
                        HasAll(f.before[k], f.post_information) /\ f.before[k].id = f.id
                 /\ f.server.items = f.before
            ELSE /\ Cardinality({k \in 1..Len(f.requests) : f.requests[k] = "POST"}) = 1
                 /\ Len(f.server.items) = Len(f.before) + 1
                 /\ SubSeq(f.server.items, 1, Len(f.before)) = f.before
                 /\ f.server.items[Len(f.server.items)].id = f.id
                 /\ HasAll(f.server.items[Len(f.server.items)], f.post_information)
                 /\ \A k \in 1..Len(f.before) : f.before[k].id # f.id
        /\ (f.pc = "returned" /\ Len(f.returned) = 2) =>
                /\ f.returned[1] = f.returned[2]
                /\ Len(f.server.items) <= Len(f.given) + 1

(* two calls have returned: the first created the item, next to an item   *)
(* that has the name but not the comment, and the second found it         *)
C26_Witness ==
    LET f == check_and_post_frame
    IN  /\ f.pc = "returned"
        /\ Len(f.returned) = 2
        /\ f.post_information.keys = {"name", "comment"}
        /\ Len(f.given) = 1
        /\ f.given[1].name = f.post_information.name
        /\ f.given[1].comment # f.post_information.comment
        /\ Len(f.server.items) = 2
        /\ f.requests = <<"PUT">>
        /\ f.returned = <<2, 2>>

(* the answer the server gave to the k-th range asked for *)
answer(k) ==
    get_range(check_fields_frame.server, check_fields_frame.st.requested[k][1],
              check_fields_frame.st.requested[k][2])

(* what a call of check_fields has reached: the ranges asked for are 0-50, *)
(* 50-100, ... in this order; every answer but the last was a page of     *)
(* items, and the loop goes on exactly as long as the last one was; the   *)
(* pages kept are the answers in order, without ERROR_RANGE_EXCEED_TOTAL; *)
(* and when the call has returned from a server that holds the            *)
(* collection, every item is in a page                                    *)
FieldsOutcome ==
    LET f == check_fields_frame
        n == Len(f.st.requested)
    IN  f.pc # "idle" =>
            /\ \A k \in 1..n : f.st.requested[k] = <<50 * (k - 1), 50 * k>>
            /\ \A k \in 1..(n - 1) : answer(k).error = ""
            /\ f.st.more_fields <=> (n = 0 \/ answer(n).error = "")
            /\ Len(f.st.glpi_fields_list) =
                    IF n > 0 /\ answer(n).error = "ERROR_RANGE_EXCEED_TOTAL" THEN n - 1 ELSE n
            /\ \A k \in 1..Len(f.st.glpi_fields_list) : f.st.glpi_fields_list[k] = answer(k)
            /\ f.pc = "returned" => ~f.st.more_fields
            /\ (f.pc = "returned" /\ f.server.found) =>
                    \A i \in 1..Len(f.server.items) :
                        \E p \in 1..Len(f.st.glpi_fields_list) :
                            \E j \in 1..Len(f.st.glpi_fields_list[p].items) :
                                f.st.glpi_fields_list[p].items[j] = f.server.items[i]

(* C30: check_fields asks for the ranges 0-50, 50-100, 100-150, ... in    *)
(* increasing order and stops at the first answer that is                 *)
(* ERROR_RANGE_EXCEED_TOTAL (page not kept) or                            *)
(* ERROR_RESOURCE_NOT_FOUND_NOR_COMMONDBTM (page kept); against a server  *)
(* that holds a finite collection and answers ERROR_RANGE_EXCEED_TOTAL    *)
(* for every range that starts past the last item it returns, and the     *)
(* pages it returns contain every item.                                   *)
C30_PagesCoverTheCollection ==
    /\ []FieldsOutcome
    /\ <>(check_fields_frame.pc = "returned")

(* a call that has returned three pages of a collection of more than 100  *)
(* items, after four ranges                                               *)
C30_Witness ==
    /\ check_fields_frame.pc = "returned"
    /\ check_fields_frame.server.found
    /\ Len(check_fields_frame.server.items) > 100
    /\ Len(check_fields_frame.st.requested) = 4
    /\ Len(check_fields_frame.st.glpi_fields_list) = 3

(* the computers GLPI held when the j-th request of the run was sent: the *)
(* ones it had before the run and the ones the earlier POSTs created      *)
held_before(j) ==
    LET f == redfish_main_frame
    IN  {f.given[i] : i \in 1..Len(f.given)}
        \cup {GlpiComputer(f.requests[i].target, f.machines[f.requests[i].machine].serial,
                           f.machines[f.requests[i].machine].uuid) :
                i \in {i \in 1..(j - 1) : f.requests[i].method = "POST"}}

(* the computers among them that have the serial and the uuid of the      *)
(* machine of the j-th request                                            *)
same_machine(j) ==
    LET machine == redfish_main_frame.machines[redfish_main_frame.requests[j].machine]
    IN  {c \in held_before(j) : c.serial = machine.serial /\ c.uuid = machine.uuid}

failed_machines ==
    {j \in 1..Len(redfish_main_frame.machines) : redfish_main_frame.machines[j].outcome # "ok"}

(* the lines of the machine file that name a machine, and the ones whose  *)
(* import failed                                                          *)
machine_lines ==
    {j \in 1..Len(wrapper_parse_list_frame.machine_list) :
        wrapper_parse_list_frame.machine_list[j].kind = "machine"}

failed_lines ==
    {j \in machine_lines : wrapper_parse_list_frame.machine_list[j].outcome # "ok"}

(* C28: in an import of several machines a failure of one machine does    *)
(* not stop the run: the error is recorded under the BMC IP of the        *)
(* machine, every later machine is attempted, in the order of the list,   *)
(* and the error table is printed once after the last machine, with       *)
(* "No errors detected!" exactly when no machine failed. Stated for the   *)
(* script run on a list of machines and for the wrapper.                  *)
C28_FailureDoesNotStopTheRun ==
    /\ LET f == redfish_main_frame
       IN  f.pc # "idle" =>
            /\ f.pc \in {"loop", "done"}
            /\ f.attempted = [j \in 1..(f.k - 1) |-> j]
            /\ \A j \in failed_machines : j < f.k => f.machines[j].ipmi_ip \in f.error_messages
            /\ f.tables = (IF f.pc = "done" THEN 1 ELSE 0)
            /\ f.pc = "done" =>
                    /\ f.k = Len(f.machines) + 1
                    /\ f.no_errors <=> failed_machines = {}
    /\ LET f == wrapper_parse_list_frame
       IN  f.pc # "idle" =>
            /\ f.pc \in {"loop", "done"}
            /\ \A j \in 1..Len(f.attempted) : f.attempted[j] \in machine_lines
            /\ \A j \in machine_lines : j < f.k => \E i \in 1..Len(f.attempted) : f.attempted[i] = j
            /\ \A i \in 1..(Len(f.attempted) - 1) : f.attempted[i] < f.attempted[i + 1]
            /\ \A j \in failed_lines : j < f.k => f.machine_list[j].ipmi_ip \in f.error_messages
            /\ f.tables = (IF f.pc = "done" THEN 1 ELSE 0)
            /\ f.pc = "done" =>
                    /\ f.k = Len(f.machine_list) + 1
                    /\ f.no_errors <=> failed_lines = {}

(* the file gives the field for this server *)
server_gives(entry, field) == ~entry.none /\ entry[field].key /\ entry[field].value # PyNone

(* the file gives username, start and end for every server and none of    *)
(* them at the top level                                                  *)
per_server_only ==
    LET f == reservation_parse_list_frame
    IN  /\ ~f.reservations.username.key /\ ~f.reservations.start.key /\ ~f.reservations.end.key
        /\ \A j \in 1..Len(f.servers) :
                \A field \in {"username", "start", "end"} : server_gives(f.servers[j], field)

(* C29: username, start and end may be given globally or for each server: *)
(* when the file gives them for every server and not globally, a          *)
(* reservation is attempted for every server of the list; and the value   *)
(* given for a server is used for that server only, a server without it   *)
(* getting the global value.                                              *)
C29_PerServerOrGlobal ==
    LET f == reservation_parse_list_frame
    IN  f.pc # "idle" =>
            /\ (per_server_only /\ f.pc \in {"done", "raised"}) =>
                    Len(f.attempts) = Len(f.servers)
            /\ \A j \in 1..Len(f.attempts) :
                    /\ f.attempts[j].server = j
                    /\ \A field \in {"username", "start", "end"} :
                            f.attempts[j][field] =
                                IF server_gives(f.servers[j], field)
                                THEN f.servers[j][field].value
                                ELSE f.reservations[field].value

(* every requirement has more candidates than there are requirements *)
Ample == \A r \in Reqs : Len(available[r]) > Len(requirements)

(* C25: when every requirement has more candidates than there are         *)
(* requirements, no round is limited, every round assigns one more        *)
(* requirement, and the run ends with a computer for every requirement    *)
(* and fulfilled: true.                                                   *)
C25_AmpleCandidatesAllAssigned ==
    (pc \in {"round", "print", "done"} /\ Ample) =>
        /\ index >= 1 => (~limited /\ assigned_in_round)
        /\ Cardinality(Assigned) = index
        /\ pc \in {"print", "done"} => (index = Len(requirements) /\ Assigned = Reqs)
        /\ pc = "done" => fulfilled = "true"

(* a finished run of two requirements with three candidates each, of      *)
(* different weights                                                      *)
C25_Witness ==
    /\ pc = "done"
    /\ Len(requirements) = 2
    /\ Ample
    /\ yaml_file[1] # yaml_file[2]
    /\ computers[1] # computers[2]
    /\ fulfilled = "true"
    /\ Cardinality(Assigned) = 2

====
